---- MODULE Spec2Model ----
(***************************************************************************)
(* UpstashVectorStore (src/unnamed/part_000, lines 1-253): the batched     *)
(* vector upsert, the metadata codec, the similarity query and delete.     *)
(*                                                                         *)
(* The store is one object whose methods are async.  A method's code       *)
(* between two awaits runs without interleaving (single-threaded           *)
(* cooperative scheduling), so each such stretch is one action.  The       *)
(* Upstash index and the AsyncCaller are collaborators of the store: the   *)
(* index is a map from id to (vector, metadata) that answers or fails      *)
(* every request, the AsyncCaller is a FIFO queue that runs at most        *)
(* maxConcurrency thunks at a time and runs a failed thunk again up to     *)
(* maxRetries times.                                                       *)
(*                                                                         *)
(* Three more stores of the repository are modelled next to it, each with  *)
(* its own variables and specifications: PostgresChatMessageHistory        *)
(* (src/src/stores/message/postgres.ts), whose methods create the table on *)
(* first use and read and write the rows of their session,                 *)
(* RedisByteStore.yieldKeys (src/src/storage/ioredis.ts), which lists keys *)
(* with SCAN, and VectaraStore.addDocuments (src/unnamed/part_000, lines   *)
(* 555-623), which indexes documents one request at a time.  The pool, the *)
(* Redis client and the Vectara service answer every command with any      *)
(* answer they can give, or fail.                                          *)
(***************************************************************************)
EXTENDS Integers, Sequences, FiniteSets, TLC

(***************************************************************************)
(* Bounds of the model.                                                    *)
(***************************************************************************)
\* longest vectors / documents / ids array passed to addVectors
MaxN == 3
\* CONCURRENT_UPSERT_LIMIT is 1000 in the source (line 39); the model draws
\* it from 1..MaxChunkSize so that batches of 0..MaxN items are cut by chunk
\* sizes 1, n, n+1 and 2n
MaxChunkSize == 3
\* largest maxConcurrency given to the AsyncCaller
MaxConcurrency == 2
\* the maxRetries given to the AsyncCaller: it never retries, or once
RetryLimits == {0, 1}
\* largest k of a similarity search
MaxK == 2
\* longest batch of the addVectors calls that overlap one another
MaxOverlapN == 2

\* the addVectors invocations the model follows
Calls == {1, 2}

(***************************************************************************)
(* Values.  JavaScript's undefined is the string "undefined"; strings that *)
(* the program handles are never equal to it in the model's inputs.        *)
(***************************************************************************)
Undefined == "undefined"

\* the key under which the document text is stored (lines 25, 107, 179)
RESERVED_KEY == "_pageContentLC"

\* {} : the metadata record without keys
EmptyMetadata == [k \in {} |-> Undefined]

\* the i-th vector of a batch; vectors at different positions differ
Vec(i) == <<i % 2, i \div 2>>

\* the documents that batches are built from: without metadata, with an
\* ordinary metadata key, and with metadata that uses the reserved key
DocPool ==
  << [pageContent |-> "cat", metadata |-> EmptyMetadata],
     [pageContent |-> "dog", metadata |-> [source |-> "s"]],
     [pageContent |-> "cat",
      metadata |-> [k \in {RESERVED_KEY, "source"} |->
                      IF k = RESERVED_KEY THEN "x" ELSE "s"]] >>

Doc(j) == DocPool[(j % Len(DocPool)) + 1]

\* ids a caller passes in options.ids
CallerIds == {"a", "b"}

\* what uuid.v4() returns for the i-th id of call c (line 103): a fresh
\* identifier, different from every other one and from the caller's ids
Uuid(c, i) == "uuid-" \o ToString(c) \o "-" \o ToString(i)

\* an id that the index holds before the store is constructed (the store
\* can be built over an existing index, lines 246-252)
ExternalId == "ext"

(***************************************************************************)
(* State.                                                                  *)
(***************************************************************************)
VARIABLES
  CONCURRENT_UPSERT_LIMIT, \* the chunk size constant (line 39)
  caller,          \* the AsyncCaller: maxConcurrency, maxRetries, its queue
  index,           \* the Upstash index: id -> (vector, metadata)
  pc,              \* per call: idle, embedding, awaiting, resolved, rejected
  args,            \* per call: the vectors, documents and options passed
  documentIds,     \* per call: the local documentIds (line 102)
  upstashVectors,  \* per call: the local upstashVectors (line 105)
  vectorChunks,    \* per call: the local vectorChunks (line 120)
  batchRequests,   \* per call: one promise per chunk (line 122)
  returned,        \* per call: the value addVectors resolved with
  thrown,          \* per call: the error addVectors rejected with
  sinkCalls,       \* how many delete and reset requests the index received
  lastDelete,      \* the delete call made, with its outcome
  lastQuery,       \* the similarity search made, with its outcome
  embedCalls,      \* the embedDocuments calls made, with their outcomes
  initialized,     \* per history: this.initialized (postgres.ts 78)
  operations,      \* the addMessage / getMessages / clear calls made
  poolQueries,     \* the statements given to pool.query, in order
  table,           \* the rows of the table the histories share
  serial,          \* the next value of the table's SERIAL id column
  namespace,       \* RedisByteStore.namespace (ioredis.ts 41)
  generator,       \* the yieldKeys generator: its position and arguments
  cursor,          \* the local cursor of yieldKeys (ioredis.ts 136)
  batch,           \* the local batch of yieldKeys (ioredis.ts 136)
  scans,           \* the SCAN commands given to the client, in order
  yielded,         \* the keys the generator has yielded, in order
  corpusId,        \* VectaraStore.corpusId (part_000 line 413)
  vectara,         \* the VectaraStore.addDocuments call: position, outcome
  doc_ids,         \* the local doc_ids of addDocuments (line 560)
  countAdded,      \* the local countAdded of addDocuments (line 561)
  fetches,         \* the POST /v1/index requests made, in order
  corpus           \* the document ids the Vectara corpus has indexed

\* the state of the PostgresChatMessageHistory and of its pool
postgresVars == <<initialized, operations, poolQueries, table, serial>>

\* the state of the RedisByteStore, of its client and of one yieldKeys call
redisVars == <<namespace, generator, cursor, batch, scans, yielded>>

\* the state of the VectaraStore, of one addDocuments call and of the corpus
vectaraVars == <<corpusId, vectara, doc_ids, countAdded, fetches, corpus>>

\* the stores next to the UpstashVectorStore
otherStores == <<postgresVars, redisVars, vectaraVars>>

\* the state of the UpstashVectorStore and of its collaborators
upstashVars == <<CONCURRENT_UPSERT_LIMIT, caller, index, pc, args,
                 documentIds, upstashVectors, vectorChunks, batchRequests,
                 returned, thrown, sinkCalls, lastDelete, lastQuery,
                 embedCalls>>

vars == <<upstashVars, otherStores>>

callVars == <<pc, args, documentIds, upstashVectors, vectorChunks, returned,
              thrown>>

NoArgs == [vectors |-> <<>>, documents |-> <<>>, hasIds |-> FALSE, ids |-> <<>>]
NoError == "none"
NoDelete == [made |-> FALSE]
NoQuery == [made |-> FALSE]

(***************************************************************************)
(* The metadata codec.                                                     *)
(***************************************************************************)
\* lines 106-109: { _pageContentLC: pageContent, ...metadata }.  The spread
\* comes second, so a key of the document's metadata replaces the text.
Encode(document) ==
  [k \in {RESERVED_KEY} \cup DOMAIN document.metadata |->
     IF k \in DOMAIN document.metadata
       THEN document.metadata[k]
       ELSE document.pageContent]

\* a decoder that reads the text and forgets to take the reserved key out of
\* the metadata
DecodeKeepsKey(hit) ==
  LET raw == IF hit.hasMetadata THEN hit.metadata ELSE EmptyMetadata
  IN  [pageContent |-> IF RESERVED_KEY \in DOMAIN raw
                         THEN raw[RESERVED_KEY] ELSE Undefined,
       metadata |-> raw]

\* lines 179-185: const { _pageContentLC, ...metadata } = res.metadata ?? {}
Decode(hit) ==
  LET raw == IF hit.hasMetadata THEN hit.metadata ELSE EmptyMetadata
  IN  [pageContent |-> IF RESERVED_KEY \in DOMAIN raw
                         THEN raw[RESERVED_KEY] ELSE Undefined,
       metadata |-> [k \in DOMAIN raw \ {RESERVED_KEY} |-> raw[k]]]

(***************************************************************************)
(* chunkArray(arr, chunkSize) of @langchain/core, called at line 120:      *)
(*   arr.reduce((chunks, elem, index) => {                                 *)
(*     const chunkIndex = Math.floor(index / chunkSize);                   *)
(*     const chunk = chunks[chunkIndex] || [];                             *)
(*     chunks[chunkIndex] = chunk.concat([elem]); return chunks; }, [])    *)
(***************************************************************************)
RECURSIVE chunkReduce(_, _, _, _)
chunkReduce(arr, chunkSize, idx, chunks) ==
  IF idx >= Len(arr) THEN chunks
  ELSE LET chunkIndex == idx \div chunkSize
           known == chunkIndex + 1 <= Len(chunks)
           chunk == IF known THEN chunks[chunkIndex + 1] ELSE <<>>
           grown == chunk \o <<arr[idx + 1]>>
       IN  chunkReduce(arr, chunkSize, idx + 1,
                       IF known THEN [chunks EXCEPT ![chunkIndex + 1] = grown]
                                ELSE Append(chunks, grown))

chunkArray(arr, chunkSize) == chunkReduce(arr, chunkSize, 0, <<>>)

(***************************************************************************)
(* addVectors, lines 97-129.                                               *)
(***************************************************************************)
\* arr[i] of JavaScript, i counted from 1: undefined outside the array
At(arr, i) == IF i \in 1..Len(arr) THEN arr[i] ELSE Undefined

\* lines 102-103: options?.ids ?? Array.from({length: vectors.length}, uuid.v4)
ComputeDocumentIds(c, a) ==
  IF a.hasIds THEN a.ids ELSE [i \in 1..Len(a.vectors) |-> Uuid(c, i)]

\* line 107: documents[index].pageContent throws a TypeError when
\* documents[index] is undefined
MapThrows(a) == Len(a.documents) < Len(a.vectors)

\* lines 105-118: vectors.map((vector, index) => ({ id, vector, metadata }))
BuildUpstashVectors(a, ids) ==
  [i \in 1..Len(a.vectors) |->
     [id |-> At(ids, i),
      vector |-> a.vectors[i],
      metadata |-> Encode(a.documents[i])]]

\* this.index.upsert(chunk) called directly, not through this.caller: the
\* request is in flight as soon as addVectors maps the chunk
DirectUpsert(chunk) ==
  [chunk |-> chunk, state |-> "inflight", upserts |-> <<chunk>>]

\* line 123: this.caller.call(async () => this.index.upsert(chunk)): the
\* promise of a thunk that waits in the caller's queue and has not called
\* upsert yet.  upserts lists the arguments of the upsert calls it made.
CallerCall(chunk) == [chunk |-> chunk, state |-> "queued", upserts |-> <<>>]

\* the whole batch sent as one request, whatever its length
VectorChunksWholeBatch(items) == <<items>>

\* chunks that may hold one item more than the limit
VectorChunksOffByOne(items) == chunkArray(items, CONCURRENT_UPSERT_LIMIT + 1)

\* line 120: chunkArray(upstashVectors, CONCURRENT_UPSERT_LIMIT)
VectorChunks(items) == chunkArray(items, CONCURRENT_UPSERT_LIMIT)

\* line 122: vectorChunks.map(...)
MapChunks(chunks) == [i \in 1..Len(chunks) |-> CallerCall(chunks[i])]

\* every chunk of call c given to this.caller.call a second time
QueuedTwice(c, requests) ==
  LET refs == [i \in 1..Len(requests) |-> <<c, i>>]
  IN  refs \o refs

\* the thunks of call c given to this.caller.call last chunk first
QueuedReversed(c, requests) ==
  [i \in 1..Len(requests) |-> <<c, Len(requests) + 1 - i>>]

\* the thunks of call c that this.caller.call put in the queue, in order
Queued(c, requests) ==
  LET refs == [i \in 1..Len(requests) |-> <<c, i>>]
  IN  SelectSeq(refs, LAMBDA r : requests[r[2]].state = "queued")

\* an addVectors that returns the ids of the first chunk it upserted
ReturnValueFirstChunk(c) ==
  IF vectorChunks[c] = <<>> THEN <<>>
  ELSE [i \in 1..Len(vectorChunks[c][1]) |-> vectorChunks[c][1][i].id]

\* line 128: return documentIds
ReturnValue(c) == documentIds[c]

\* Promise.allSettled in place of Promise.all: the await returns once no
\* promise is pending, whether fulfilled or rejected
AllSettled(requests) ==
  \A i \in 1..Len(requests) : requests[i].state \in {"fulfilled", "rejected"}

\* an await that returns as soon as one promise is fulfilled
AnyFulfilled(requests) ==
  requests = <<>> \/ \E i \in 1..Len(requests) : requests[i].state = "fulfilled"

\* line 126: Promise.all fulfils when every promise is fulfilled
AllFulfilled(requests) ==
  \A i \in 1..Len(requests) : requests[i].state = "fulfilled"

\* an await that throws only once every promise is settled and one of them
\* is rejected
RejectedOnceSettled(requests) ==
  /\ \A i \in 1..Len(requests) : requests[i].state \in {"fulfilled", "rejected"}
  /\ \E i \in 1..Len(requests) : requests[i].state = "rejected"

\* line 126: Promise.all rejects as soon as one promise is rejected
SomeRejected(requests) ==
  \E i \in 1..Len(requests) : requests[i].state = "rejected"

\* lines 97-124: everything up to the await, which runs in one stretch
RunAddVectors(c, a) ==
  /\ args' = [args EXCEPT ![c] = a]
  /\ IF MapThrows(a)
       THEN /\ pc' = [pc EXCEPT ![c] = "rejected"]
            /\ thrown' = [thrown EXCEPT ![c] = "TypeError"]
            /\ documentIds' = [documentIds EXCEPT ![c] = ComputeDocumentIds(c, a)]
            /\ UNCHANGED <<upstashVectors, vectorChunks, batchRequests, caller>>
       ELSE LET ids == ComputeDocumentIds(c, a)
                items == BuildUpstashVectors(a, ids)
                chunks == VectorChunks(items)
                requests == MapChunks(chunks)
            IN  /\ pc' = [pc EXCEPT ![c] = "awaiting"]
                /\ documentIds' = [documentIds EXCEPT ![c] = ids]
                /\ upstashVectors' = [upstashVectors EXCEPT ![c] = items]
                /\ vectorChunks' = [vectorChunks EXCEPT ![c] = chunks]
                /\ batchRequests' = [batchRequests EXCEPT ![c] = requests]
                /\ caller' = [caller EXCEPT
                                !.queue = @ \o Queued(c, requests)]
                /\ UNCHANGED thrown
  /\ UNCHANGED <<otherStores, CONCURRENT_UPSERT_LIMIT, index, returned,
                 sinkCalls, lastDelete, lastQuery>>

\* addVectors called by the application
AddVectors(c, a) ==
  /\ pc[c] = "idle"
  /\ RunAddVectors(c, a)
  /\ UNCHANGED embedCalls

\* lines 126-128: the await returns and addVectors resolves with the ids
ResolveAddVectors(c) ==
  /\ pc[c] = "awaiting"
  /\ AllFulfilled(batchRequests[c])
  /\ pc' = [pc EXCEPT ![c] = "resolved"]
  /\ returned' = [returned EXCEPT ![c] = ReturnValue(c)]
  /\ UNCHANGED <<otherStores, embedCalls, CONCURRENT_UPSERT_LIMIT,
                 caller, index, args, documentIds,
                 upstashVectors, vectorChunks, batchRequests, thrown,
                 sinkCalls, lastDelete, lastQuery>>

\* line 126: the await throws and addVectors rejects; nothing follows it
RejectAddVectors(c) ==
  /\ pc[c] = "awaiting"
  /\ SomeRejected(batchRequests[c])
  /\ pc' = [pc EXCEPT ![c] = "rejected"]
  /\ thrown' = [thrown EXCEPT ![c] = "UpstreamFailure"]
  /\ UNCHANGED <<otherStores, embedCalls, CONCURRENT_UPSERT_LIMIT,
                 caller, index, args, documentIds,
                 upstashVectors, vectorChunks, batchRequests, returned,
                 sinkCalls, lastDelete, lastQuery>>

(***************************************************************************)
(* addDocuments, lines 79-88.                                              *)
(***************************************************************************)
\* texts in reverse order of the documents
TextsReversed(documents) ==
  [i \in 1..Len(documents) |-> documents[Len(documents) + 1 - i].pageContent]

\* line 83: documents.map(({ pageContent }) => pageContent)
Texts(documents) == [i \in 1..Len(documents) |-> documents[i].pageContent]

\* this.embeddings.embedDocuments(texts), when it answers: one vector per
\* text, in the order of the texts
EmbedDocuments(texts) == [i \in 1..Len(texts) |-> Vec(i)]

\* lines 83-85: the texts are given to the embedding provider and
\* addDocuments awaits its answer; args keeps the documents and options
AddDocuments(c, documents, hasIds, ids) ==
  /\ pc[c] = "idle"
  /\ pc' = [pc EXCEPT ![c] = "embedding"]
  /\ args' = [args EXCEPT ![c] = [vectors |-> <<>>, documents |-> documents,
                                  hasIds |-> hasIds, ids |-> ids]]
  /\ embedCalls' = Append(embedCalls,
                          [call |-> c, texts |-> Texts(documents),
                           state |-> "pending", embeddings |-> <<>>])
  /\ UNCHANGED <<otherStores, CONCURRENT_UPSERT_LIMIT, caller, index,
                 documentIds, upstashVectors, vectorChunks, batchRequests,
                 returned, thrown, sinkCalls, lastDelete, lastQuery>>

\* lines 85-87: the provider answers and addDocuments calls addVectors with
\* the embeddings, the documents and the options
EmbedSucceeds(c) ==
  /\ pc[c] = "embedding"
  /\ \E j \in 1..Len(embedCalls) :
       /\ embedCalls[j].call = c /\ embedCalls[j].state = "pending"
       /\ LET embeddings == EmbedDocuments(embedCalls[j].texts)
          IN  /\ embedCalls' = [embedCalls EXCEPT
                                  ![j].state = "resolved",
                                  ![j].embeddings = embeddings]
              /\ RunAddVectors(c, [args[c] EXCEPT !.vectors = embeddings])

\* line 85: the provider fails, the await throws and addDocuments rejects
EmbedFails(c) ==
  /\ pc[c] = "embedding"
  /\ \E j \in 1..Len(embedCalls) :
       /\ embedCalls[j].call = c /\ embedCalls[j].state = "pending"
       /\ embedCalls' = [embedCalls EXCEPT ![j].state = "rejected"]
  /\ pc' = [pc EXCEPT ![c] = "rejected"]
  /\ thrown' = [thrown EXCEPT ![c] = "EmbeddingFailure"]
  /\ UNCHANGED <<otherStores, CONCURRENT_UPSERT_LIMIT, caller, index, args,
                 documentIds, upstashVectors, vectorChunks, batchRequests,
                 returned, sinkCalls, lastDelete, lastQuery>>

(***************************************************************************)
(* The AsyncCaller (constructed at line 68) and the index's upsert.        *)
(***************************************************************************)
\* the thunks that hold one of the caller's maxConcurrency places
Running ==
  {r \in Calls \X (1..MaxN) :
     /\ r[2] <= Len(batchRequests[r[1]])
     /\ batchRequests[r[1]][r[2]].state \in {"inflight", "backoff"}}

\* the upsert requests the index has received and not answered
InFlight ==
  {r \in Calls \X (1..MaxN) :
     /\ r[2] <= Len(batchRequests[r[1]])
     /\ batchRequests[r[1]][r[2]].state = "inflight"}

\* index.upsert(chunk) applied: each item replaces what its id held
RECURSIVE ApplyUpsert(_, _)
ApplyUpsert(idx, chunk) ==
  IF chunk = <<>> THEN idx
  ELSE LET item == Head(chunk)
           put == [k \in DOMAIN idx \cup {item.id} |->
                     IF k = item.id
                       THEN [vector |-> item.vector, hasMetadata |-> TRUE,
                             metadata |-> item.metadata]
                       ELSE idx[k]]
       IN  ApplyUpsert(put, Tail(chunk))

\* the caller starts the oldest queued thunk when a place is free; the thunk
\* calls this.index.upsert(chunk) (line 123)
StartThunk ==
  /\ caller.queue # <<>>
  /\ Cardinality(Running) < caller.maxConcurrency
  /\ LET c == Head(caller.queue)[1]
         i == Head(caller.queue)[2]
     IN  batchRequests' = [batchRequests EXCEPT ![c][i] =
           [@ EXCEPT !.state = "inflight",
                     !.upserts = Append(@, batchRequests[c][i].chunk)]]
  /\ caller' = [caller EXCEPT !.queue = Tail(@)]
  /\ UNCHANGED <<otherStores, embedCalls, CONCURRENT_UPSERT_LIMIT,
                 index, callVars, sinkCalls,
                 lastDelete, lastQuery>>

\* the index applies the chunk and answers; the thunk's promise fulfils
UpsertSucceeds(c, i) ==
  /\ i <= Len(batchRequests[c])
  /\ batchRequests[c][i].state = "inflight"
  /\ index' = ApplyUpsert(index, batchRequests[c][i].upserts[
                                   Len(batchRequests[c][i].upserts)])
  /\ batchRequests' = [batchRequests EXCEPT ![c][i].state = "fulfilled"]
  /\ UNCHANGED <<otherStores, embedCalls, CONCURRENT_UPSERT_LIMIT,
                 caller, callVars, sinkCalls,
                 lastDelete, lastQuery>>

\* the request fails (the index refuses it, the connection breaks or times
\* out): the caller runs the thunk again later when the error is one it
\* retries and it has retries left, or gives up and rejects the promise
UpsertFails(c, i, retryable) ==
  /\ i <= Len(batchRequests[c])
  /\ batchRequests[c][i].state = "inflight"
  /\ batchRequests' = [batchRequests EXCEPT ![c][i].state =
        IF retryable /\ Len(batchRequests[c][i].upserts) <= caller.maxRetries
          THEN "backoff" ELSE "rejected"]
  /\ UNCHANGED <<otherStores, embedCalls, CONCURRENT_UPSERT_LIMIT,
                 caller, index, callVars, sinkCalls,
                 lastDelete, lastQuery>>

\* the caller's retry: the thunk runs again and calls upsert again
RetryThunk(c, i) ==
  /\ i <= Len(batchRequests[c])
  /\ batchRequests[c][i].state = "backoff"
  /\ batchRequests' = [batchRequests EXCEPT ![c][i] =
        [@ EXCEPT !.state = "inflight",
                  !.upserts = Append(@, batchRequests[c][i].chunk)]]
  /\ UNCHANGED <<otherStores, embedCalls, CONCURRENT_UPSERT_LIMIT,
                 caller, index, callVars, sinkCalls,
                 lastDelete, lastQuery>>

(***************************************************************************)
(* delete, lines 137-143.                                                  *)
(***************************************************************************)
\* params.ids is absent, a string or an array of strings; list holds the
\* string or the array's elements
NoIdsParam == [present |-> FALSE, isArray |-> FALSE, list |-> <<>>]
StringIds(str) == [present |-> TRUE, isArray |-> FALSE, list |-> <<str>>]
ArrayIds(list) == [present |-> TRUE, isArray |-> TRUE, list |-> list]

\* JavaScript's truthiness of params.ids (line 140): an array is truthy,
\* also when empty; a string is truthy unless empty
IdsTruthy(ids) == ids.present /\ (ids.isArray \/ ids.list # <<"">>)

\* JavaScript's truthiness of params.deleteAll (line 138)
DeleteAllTruthy(deleteAll) == deleteAll.present /\ deleteAll.value

\* index.reset(): the index drops every vector
ResetIndex == [k \in {} |-> Undefined]

\* index.delete(ids): the index drops the vectors with these ids
DeleteFromIndex(idx, ids) ==
  [k \in DOMAIN idx \ {ids.list[j] : j \in 1..Len(ids.list)} |-> idx[k]]

\* a delete that answers ids with a reset of the whole index
DeleteRequestResetsOnIds(params) ==
  IF DeleteAllTruthy(params.deleteAll) \/ IdsTruthy(params.ids) THEN "reset"
  ELSE "none"

\* lines 138-142: which request delete sends to the index
DeleteRequest(params) ==
  IF DeleteAllTruthy(params.deleteAll) THEN "reset"
  ELSE IF IdsTruthy(params.ids) THEN "delete"
  ELSE "none"

\* lines 137-143, with the index's answer: sinkOk is whether the index
\* carried the request out; sent is the argument of index.delete (line 141)
Delete(params, sinkOk) ==
  /\ ~lastDelete.made
  /\ LET request == DeleteRequest(params)
         done == request # "none" /\ sinkOk
     IN  /\ index' = IF done /\ request = "reset" THEN ResetIndex
                     ELSE IF done /\ request = "delete"
                       THEN DeleteFromIndex(index, params.ids)
                     ELSE index
         /\ sinkCalls' = [sinkCalls EXCEPT
                            !.reset = @ + (IF request = "reset" THEN 1 ELSE 0),
                            !.delete = @ + (IF request = "delete" THEN 1 ELSE 0)]
         /\ lastDelete' =
              [made |-> TRUE, params |-> params, request |-> request,
               sent |-> IF request = "delete" THEN params.ids ELSE NoIdsParam,
               state |-> IF request = "none" \/ sinkOk
                           THEN "resolved" ELSE "rejected",
               error |-> IF request = "none" \/ sinkOk
                           THEN NoError ELSE "UpstreamFailure"]
  /\ UNCHANGED <<otherStores, embedCalls, CONCURRENT_UPSERT_LIMIT,
                 caller, callVars, batchRequests,
                 lastQuery>>

(***************************************************************************)
(* similaritySearchVectorWithScore, lines 145-191.                         *)
(***************************************************************************)
\* the filter argument: left out, or an expression in the index's language
NoFilter == [present |-> FALSE, expression |-> ""]
Filters == {NoFilter, [present |-> TRUE, expression |-> "source = 's'"]}

\* the query vectors of the searches
Queries == {Vec(1), Vec(2)}

\* a query that leaves the caller's filter out
QueryRequestWithoutFilter(query, k, filter) ==
  [vector |-> query, topK |-> k, includeMetadata |-> TRUE, filter |-> NoFilter]

\* lines 151-157: the argument of this.index.query; options is undefined
\* when the search calls _runUpstashQuery (line 176), so ...options adds
\* nothing
QueryRequest(query, k, filter) ==
  [vector |-> query, topK |-> k, includeMetadata |-> TRUE, filter |-> filter]

\* a search that leaves out the hits that carry no metadata
MapResultsWithMetadata(results) ==
  LET kept == SelectSeq(results, LAMBDA res : res.hasMetadata)
  IN  [j \in 1..Len(kept) |->
         [document |-> Decode(kept[j]), score |-> kept[j].score]]

\* lines 178-188: results.map((res) => [new Document(...), res.score])
MapResults(results) ==
  [j \in 1..Len(results) |->
     [document |-> Decode(results[j]), score |-> results[j].score]]

\* the scores the index reports
Scores == {1, 2}

\* what the index can report for one hit: a stored vector's id and
\* metadata (none when it was stored without) and a score
HitsOf(idx) ==
  {[id |-> id, score |-> sc, hasMetadata |-> idx[id].hasMetadata,
    metadata |-> idx[id].metadata] : id \in DOMAIN idx, sc \in Scores}

\* the answers of the index to a query for topK hits: at most topK hits in
\* the order and with the scores the index chooses
AnswersOf(idx, topK) == UNION {[1..n -> HitsOf(idx)] : n \in 0..topK}


\* lines 171-191 when the index answers with results; args are the
\* arguments of the search, queries the arguments of the index.query calls
\* it made (line 151)
Search(query, k, filter, results) ==
  /\ ~lastQuery.made
  /\ results \in AnswersOf(index, k)
  /\ lastQuery' = [made |-> TRUE, request |-> QueryRequest(query, k, filter),
                   args |-> [query |-> query, k |-> k, filter |-> filter],
                   queries |-> <<QueryRequest(query, k, filter)>>,
                   answered |-> TRUE, state |-> "resolved",
                   queryResult |-> results,
                   searchResult |-> MapResults(results)]
  /\ UNCHANGED <<otherStores, embedCalls, CONCURRENT_UPSERT_LIMIT,
                 caller, index, callVars,
                 batchRequests, sinkCalls, lastDelete>>

\* line 176 when the query fails: the await throws, the search rejects
SearchFails(query, k, filter) ==
  /\ ~lastQuery.made
  /\ lastQuery' = [made |-> TRUE, request |-> QueryRequest(query, k, filter),
                   args |-> [query |-> query, k |-> k, filter |-> filter],
                   queries |-> <<QueryRequest(query, k, filter)>>,
                   answered |-> FALSE, state |-> "rejected",
                   queryResult |-> <<>>,
                   searchResult |-> <<>>]
  /\ UNCHANGED <<otherStores, embedCalls, CONCURRENT_UPSERT_LIMIT,
                 caller, index, callVars,
                 batchRequests, sinkCalls, lastDelete>>

(***************************************************************************)
(* PostgresChatMessageHistory (src/src/stores/message/postgres.ts).        *)
(***************************************************************************)
\* the addMessage / getMessages / clear invocations the model follows on
\* one history, and on the histories that share a table
MaxOperations == 2
MaxSessionCalls == 4
Operations == 1..MaxOperations
SessionCalls == 1..MaxSessionCalls

\* the session ids of the histories that share the table
Sessions == {"s1", "s2"}

\* the chat messages the application adds
Greeting == [type |-> "human", content |-> "hi"]
Messages == {Greeting, [type |-> "ai", content |-> "yo"]}
NoMessage == [type |-> "none", content |-> ""]

\* what pool.query throws: an error without a code property or with one
PgError(hasCode, code) == [raised |-> TRUE, hasCode |-> hasCode, code |-> code]
NoPgError == [raised |-> FALSE, hasCode |-> FALSE, code |-> ""]

\* the errors CREATE TABLE fails with: without code, unique_violation of a
\* concurrent CREATE, insufficient_privilege
CreateErrors ==
  {PgError(FALSE, ""), PgError(TRUE, "23505"), PgError(TRUE, "42501")}

\* the error INSERT, SELECT or DELETE fails with
StatementErrors == {PgError(TRUE, "23505")}

Kinds == {"addMessage", "getMessages", "clear"}

\* the messages a call of each kind can be given
MessagesOf(kind, messages) ==
  IF kind = "addMessage" THEN messages ELSE {NoMessage}

NoOperation ==
  [kind |-> "none", pc |-> "idle", error |-> NoPgError, session |-> "none",
   message |-> NoMessage, result |-> <<>>]

\* postgres.ts 78 and 90-105: new histories, one for each session id, are
\* not initialized, no call is made, the pool has received nothing and the
\* table they share has no row
PostgresConstructed(sessions, calls) ==
  /\ initialized = [s \in sessions |-> FALSE]
  /\ operations = [o \in calls |-> NoOperation]
  /\ poolQueries = <<>>
  /\ table = {}
  /\ serial = 1

\* an ensureTable that does not look at this.initialized
MustCreateAlways(session) == TRUE

\* postgres.ts 112: if (this.initialized) return
MustCreate(session) == ~initialized[session]

\* a catch that lets no error of CREATE TABLE through
IgnoredAlways(e) == TRUE

\* postgres.ts 130: the errors the catch does not rethrow
Ignored(e) == ~(~e.hasCode \/ e.code # "23505")

\* postgres.ts 141, 149, 165: the statement of each method
StatementOf(kind) ==
  CASE kind = "addMessage" -> "INSERT"
    [] kind = "getMessages" -> "SELECT"
    [] kind = "clear" -> "DELETE"

\* statements without a WHERE clause
WhereNothing(statement) == FALSE

\* postgres.ts 149, 165: SELECT and DELETE have WHERE session_id = $1
WhereSession(statement) == statement \in {"SELECT", "DELETE"}

\* postgres.ts 139 and 143: { ...data, type } of the stored message
RowMessage(message) == [content |-> message.content, type |-> message.type]

\* postgres.ts 143, 151, 166: the values passed with the statement
ParamsOf(statement, session, message) ==
  CASE statement = "INSERT" -> <<session, RowMessage(message)>>
    [] statement \in {"SELECT", "DELETE"} -> <<session>>
    [] OTHER -> <<>>

\* postgres.ts 153-159: { type, ...data } = row.message, as a chat message
ChatMessage(row) == [type |-> row.message.type, content |-> row.message.content]

\* a statement given to pool.query by operation o; answeredBefore counts
\* the statements the pool had answered when this one was given
Issued(o, statement) ==
  [operation |-> o, statement |-> statement, state |-> "pending",
   error |-> NoPgError,
   answeredBefore |->
     Cardinality({j \in 1..Len(poolQueries) :
                    poolQueries[j].state # "pending"}),
   where |-> WhereSession(statement),
   params |-> ParamsOf(statement, operations[o].session,
                       operations[o].message)]

\* the statement of operation o that the pool has not answered
PendingOf(o) ==
  CHOOSE j \in 1..Len(poolQueries) :
    poolQueries[j].operation = o /\ poolQueries[j].state = "pending"

\* the rows a statement applies to: those of the session in $1 when the
\* statement has the WHERE clause, every row when it has none
RowsOf(rows, query) ==
  {r \in rows : ~query.where \/ r.session_id = query.params[1]}

\* ORDER BY id
RECURSIVE OrderById(_)
OrderById(rows) ==
  IF rows = {} THEN <<>>
  ELSE LET first == CHOOSE r \in rows : \A q \in rows : r.id <= q.id
       IN  <<first>> \o OrderById(rows \ {first})

\* the table after the database ran the statement: INSERT adds a row with
\* the next id of the SERIAL column, DELETE removes the rows it applies to
Executed(rows, query) ==
  CASE query.statement = "INSERT" ->
         rows \cup {[id |-> serial, session_id |-> query.params[1],
                     message |-> query.params[2]]}
    [] query.statement = "DELETE" -> rows \ RowsOf(rows, query)
    [] OTHER -> rows

\* res.rows of the statement: the rows of a SELECT in the order of their ids
ResultRows(rows, query) ==
  IF query.statement = "SELECT" THEN OrderById(RowsOf(rows, query)) ELSE <<>>

\* postgres.ts 153-159: the rows mapped to chat messages
MapRows(rows) == [i \in 1..Len(rows) |-> ChatMessage(rows[i])]

\* postgres.ts 138, 147, 163 with 112-122: a method of the history of a
\* session is called and runs to its first await: ensureTable returns at
\* once, or gives CREATE TABLE to the pool and awaits the answer.  The calls
\* are numbered in the order in which they are made.
Call(o, session, kind, message) ==
  /\ operations[o].pc = "idle"
  /\ \A earlier \in 1..(o - 1) : operations[earlier].pc # "idle"
  /\ LET called == [NoOperation EXCEPT !.kind = kind, !.session = session,
                                       !.message = message]
     IN  IF MustCreate(session)
           THEN /\ poolQueries' = Append(poolQueries, Issued(o, "CREATE"))
                /\ operations' = [operations EXCEPT
                                    ![o] = [called EXCEPT !.pc = "creating"]]
           ELSE /\ poolQueries' = poolQueries
                /\ operations' = [operations EXCEPT
                                    ![o] = [called EXCEPT !.pc = "ensured"]]
  /\ UNCHANGED <<upstashVars, redisVars, vectaraVars, initialized, table, serial>>

\* postgres.ts 122 and 134: CREATE TABLE IF NOT EXISTS succeeds; the rows of
\* the table are as they were
CreateSucceeds(o) ==
  /\ operations[o].pc = "creating"
  /\ poolQueries' = [poolQueries EXCEPT ![PendingOf(o)].state = "ok"]
  /\ initialized' = [initialized EXCEPT ![operations[o].session] = TRUE]
  /\ operations' = [operations EXCEPT ![o].pc = "ensured"]
  /\ UNCHANGED <<upstashVars, redisVars, vectaraVars, table, serial>>

\* postgres.ts 124-134: CREATE TABLE fails with e
CreateFails(o, e) ==
  /\ operations[o].pc = "creating"
  /\ poolQueries' = [poolQueries EXCEPT ![PendingOf(o)].state = "failed",
                                        ![PendingOf(o)].error = e]
  /\ IF Ignored(e)
       THEN /\ initialized' = [initialized EXCEPT
                                 ![operations[o].session] = TRUE]
            /\ operations' = [operations EXCEPT ![o].pc = "ensured"]
       ELSE /\ initialized' = initialized
            /\ operations' = [operations EXCEPT ![o].pc = "rejected",
                                                ![o].error = e]
  /\ UNCHANGED <<upstashVars, redisVars, vectaraVars, table, serial>>

\* postgres.ts 143, 151, 166: after the await of ensureTable the method
\* gives its statement to the pool
IssueStatement(o) ==
  /\ operations[o].pc = "ensured"
  /\ poolQueries' = Append(poolQueries,
                           Issued(o, StatementOf(operations[o].kind)))
  /\ operations' = [operations EXCEPT ![o].pc = "querying"]
  /\ UNCHANGED <<upstashVars, redisVars, vectaraVars, initialized, table, serial>>

\* the database runs the statement and the pool answers; the method returns
\* (getMessages with the messages of the rows, postgres.ts 153-159)
StatementSucceeds(o) ==
  /\ operations[o].pc = "querying"
  /\ LET query == poolQueries[PendingOf(o)]
     IN  /\ table' = Executed(table, query)
         /\ serial' = IF query.statement = "INSERT" THEN serial + 1 ELSE serial
         /\ operations' = [operations EXCEPT
                             ![o].pc = "resolved",
                             ![o].result = MapRows(ResultRows(table, query))]
  /\ poolQueries' = [poolQueries EXCEPT ![PendingOf(o)].state = "ok"]
  /\ UNCHANGED <<upstashVars, redisVars, vectaraVars, initialized>>

\* the statement fails and changes no row: the await throws and the method
\* rejects with e
StatementFails(o, e) ==
  /\ operations[o].pc = "querying"
  /\ poolQueries' = [poolQueries EXCEPT ![PendingOf(o)].state = "failed",
                                        ![PendingOf(o)].error = e]
  /\ operations' = [operations EXCEPT ![o].pc = "rejected", ![o].error = e]
  /\ UNCHANGED <<upstashVars, redisVars, vectaraVars, initialized, table, serial>>

(***************************************************************************)
(* RedisByteStore.yieldKeys (src/src/storage/ioredis.ts, lines 34-158).    *)
(* Strings are sequences of characters, so that slicing and concatenation  *)
(* are computed as JavaScript computes them.                               *)
(***************************************************************************)
\* SCAN commands of one yieldKeys call that the model follows
MaxScans == 2
\* most keys in one answer of SCAN
MaxKeys == 2

\* fields.namespace left out
NoNamespace == <<>>

\* the namespaces of the stores
Namespaces == {NoNamespace, <<"n">>}

\* the prefix argument of yieldKeys: left out, plain, ending with a star
NoPrefix == <<>>
Prefixes == {NoPrefix, <<"k">>, <<"k", "*">>}

\* the keys the Redis database holds
StoredKeys == {<<"n", "/", "k">>, <<"n", "/", "x">>, <<"k">>}

\* the cursors SCAN returns, as ioredis gives them: strings
Cursors == {"0", "1", "2"}

\* ioredis.ts 59-65
getPrefixedKey(key) ==
  IF namespace # <<>>
    THEN LET delimiter == <<"/">> IN namespace \o delimiter \o key
    ELSE key

\* key.slice(start) of JavaScript, start >= 0
Slice(key, start) == SubSeq(key, start + 1, Len(key))

\* ioredis.ts 67-73
getDeprefixedKey(key) ==
  IF namespace # <<>>
    THEN LET delimiter == <<"/">>
         IN  Slice(key, Len(namespace) + Len(delimiter))
    ELSE key

\* prefix.endsWith("*")
EndsWithStar(prefix) == prefix # <<>> /\ prefix[Len(prefix)] = "*"

\* ioredis.ts 129-135: the pattern of the SCAN commands
Pattern(prefix) ==
  IF prefix # <<>>
    THEN LET wildcardPrefix ==
               IF EndsWithStar(prefix) THEN prefix ELSE prefix \o <<"*">>
         IN  getPrefixedKey(wildcardPrefix)
    ELSE getPrefixedKey(<<"*">>)

\* Redis' MATCH for a pattern that is a literal followed by one star
Matches(key, pattern) ==
  LET literal == SubSeq(pattern, 1, Len(pattern) - 1)
  IN  /\ Len(key) >= Len(literal)
      /\ SubSeq(key, 1, Len(literal)) = literal

\* what SCAN can answer with: up to MaxKeys different stored keys that match
\* the pattern, in any order (a key can come again in a later answer)
ScanBatches(pattern) ==
  LET matching == {key \in StoredKeys : Matches(key, pattern)}
  IN  {keys \in UNION {[1..n -> matching] : n \in 0..MaxKeys} :
         \A i, j \in 1..Len(keys) : i # j => keys[i] # keys[j]}

\* a loop that goes on while SCAN returns keys
ContinuesWhileKeys(c) == batch # <<>>

\* ioredis.ts 146: while (cursor !== "0")
Continues(c) == c # "0"

\* a SCAN command as given to the client, not answered yet
ScanCommand(c, pattern) ==
  [cursor |-> c, pattern |-> pattern, answered |-> FALSE,
   nextCursor |-> Undefined, keys |-> <<>>]

NotCalled == [state |-> "notCalled", pattern |-> <<>>, next |-> 0]

\* ioredis.ts 45-57: the store with its namespace; yieldKeys is not called
RedisConstructed(namespaces) ==
  /\ namespace \in namespaces
  /\ generator = NotCalled
  /\ cursor = Undefined
  /\ batch = <<>>
  /\ scans = <<>>
  /\ yielded = <<>>

\* ioredis.ts 128-142: yieldKeys is called and read; it computes the
\* pattern, gives the first SCAN to the client and awaits the answer
YieldKeys(prefix) ==
  /\ generator.state = "notCalled"
  /\ generator' = [state |-> "scanning", pattern |-> Pattern(prefix),
                   next |-> 0]
  /\ scans' = <<ScanCommand("0", Pattern(prefix))>>
  /\ UNCHANGED <<upstashVars, postgresVars, vectaraVars, namespace, cursor, batch,
                 yielded>>

\* ioredis.ts 136 and 147: the client answers the SCAN awaited; the
\* destructuring assigns cursor and batch and the for loop begins
ScanAnswers(nextCursor, keys) ==
  /\ generator.state = "scanning"
  /\ keys \in ScanBatches(generator.pattern)
  /\ scans' = [scans EXCEPT ![Len(scans)] =
                 [@ EXCEPT !.answered = TRUE, !.nextCursor = nextCursor,
                           !.keys = keys]]
  /\ cursor' = nextCursor
  /\ batch' = keys
  /\ generator' = [generator EXCEPT !.state = "yielding", !.next = 1]
  /\ UNCHANGED <<upstashVars, postgresVars, vectaraVars, namespace, yielded>>

\* the SCAN fails: the await throws and the generator ends with the error
ScanFails ==
  /\ generator.state = "scanning"
  /\ generator' = [generator EXCEPT !.state = "failed"]
  /\ UNCHANGED <<upstashVars, postgresVars, vectaraVars, namespace, cursor, batch,
                 scans, yielded>>

\* ioredis.ts 143-145 and 154-156: the for loop yields the next key
YieldKey ==
  /\ generator.state = "yielding"
  /\ generator.next <= Len(batch)
  /\ yielded' = Append(yielded, getDeprefixedKey(batch[generator.next]))
  /\ generator' = [generator EXCEPT !.next = @ + 1]
  /\ UNCHANGED <<upstashVars, postgresVars, vectaraVars, namespace, cursor, batch,
                 scans>>

\* ioredis.ts 146-153: the batch is through and the loop goes on: the next
\* SCAN is given to the client with the cursor.  The model follows the
\* first MaxScans commands of a call.
ScanAgain ==
  /\ generator.state = "yielding"
  /\ generator.next > Len(batch)
  /\ Continues(cursor)
  /\ Len(scans) < MaxScans
  /\ scans' = Append(scans, ScanCommand(cursor, generator.pattern))
  /\ generator' = [generator EXCEPT !.state = "scanning"]
  /\ UNCHANGED <<upstashVars, postgresVars, vectaraVars, namespace, cursor, batch,
                 yielded>>

\* ioredis.ts 146 and 158: the batch is through and the loop ends
ReturnKeys ==
  /\ generator.state = "yielding"
  /\ generator.next > Len(batch)
  /\ ~Continues(cursor)
  /\ generator' = [generator EXCEPT !.state = "completed"]
  /\ UNCHANGED <<upstashVars, postgresVars, vectaraVars, namespace, cursor, batch,
                 scans, yielded>>

(***************************************************************************)
(* VectaraStore.addDocuments (src/unnamed/part_000, lines 555-623).        *)
(***************************************************************************)
\* the longest list of documents one addDocuments call is given
MaxDocuments == 3

\* the documents the lists are built from: without metadata.document_id,
\* with one, with the same one again, and with the empty string as one
VectaraDocuments ==
  {[pageContent |-> "cat", metadata |-> [document_id |-> Undefined]],
   [pageContent |-> "dog", metadata |-> [document_id |-> "d1"]],
   [pageContent |-> "emu", metadata |-> [document_id |-> ""]]}

\* the lists of documents addDocuments is called with
DocumentLists ==
  UNION {[1..n -> VectaraDocuments] : n \in 0..MaxDocuments}

\* this.corpusId after the constructor (lines 449-455): one id or several
CorpusIds == {<<1>>, <<1, 2>>}

\* the corpus when the store is constructed: empty, or with a document
\* indexed before under the id d1
Corpora == {{}, {"d1"}}

\* result.status?.code of a response: two that count as success, one that
\* does not, and a body without status
StatusCodes == {"OK", "ALREADY_EXISTS", "INVALID_ARGUMENT", Undefined}

\* what uuid.v4() returns for the i-th document (line 563): a fresh id
DocUuid(i) == "uuid-doc-" \o ToString(i)

\* line 563: document.metadata?.document_id ?? uuid.v4()
DocId(document, i) ==
  IF document.metadata.document_id # Undefined
    THEN document.metadata.document_id ELSE DocUuid(i)

\* lines 564-577: the body of the request for the i-th document
Data(document, i) ==
  [corpus_id |-> corpusId[1], document_id |-> DocId(document, i),
   text |-> document.pageContent]

\* a test that takes OK alone as success
SucceededOnlyOk(code) == code = "OK"

\* lines 592-595: the status codes that do not make addDocuments throw
Succeeded(code) == ~(code # "OK" /\ code # "ALREADY_EXISTS")

\* lines 556-557: this.corpusId.length > 1
MultipleCorpusIds == Len(corpusId) > 1

\* lines 585-590: fetch called with the body for the i-th document
Fetch(document, i) ==
  [data |-> Data(document, i), state |-> "pending", code |-> Undefined]

NoVectaraCall ==
  [pc |-> "idle", documents |-> <<>>, position |-> 0, returned |-> <<>>,
   code |-> Undefined]

\* lines 427-472: the store as constructed, addDocuments not called
VectaraConstructed(corpusIds, corpora) ==
  /\ corpusId \in corpusIds
  /\ vectara = NoVectaraCall
  /\ doc_ids = <<>>
  /\ countAdded = 0
  /\ fetches = <<>>
  /\ corpus \in corpora

\* lines 555-590: addDocuments is called and runs to its first fetch; with
\* several corpus ids it throws at once, with no document it returns []
VectaraAddDocuments(documents) ==
  /\ vectara.pc = "idle"
  /\ IF MultipleCorpusIds
       THEN /\ vectara' = [vectara EXCEPT !.pc = "rejected",
                                          !.documents = documents]
            /\ fetches' = fetches
       ELSE IF documents = <<>>
         THEN /\ vectara' = [vectara EXCEPT !.pc = "resolved",
                                            !.documents = documents,
                                            !.returned = doc_ids]
              /\ fetches' = fetches
         ELSE /\ vectara' = [vectara EXCEPT !.pc = "fetching",
                                            !.documents = documents,
                                            !.position = 1]
              /\ fetches' = Append(fetches, Fetch(documents[1], 1))
  /\ UNCHANGED <<upstashVars, postgresVars, redisVars, corpusId, doc_ids,
                 countAdded, corpus>>

\* the corpus after the service answered a request for id with code: OK
\* means the document is indexed now
Indexed(docs, id, code) == IF code = "OK" THEN docs \cup {id} ELSE docs

\* the codes the service can answer a request for id with: OK for an id
\* the corpus does not hold, ALREADY_EXISTS for one it holds
Answers(docs, id) ==
  {code \in StatusCodes :
     /\ code = "OK" => id \notin docs
     /\ code = "ALREADY_EXISTS" => id \in docs}

\* lines 591-609 and 562-590: the response arrives and is parsed.  With a
\* status that counts as success the id is pushed and the loop goes on to
\* the fetch for the next document, or ends and addDocuments returns
\* doc_ids (line 622); with another status the error thrown at line 603 is
\* caught at line 610 and an error with code 500 is thrown (lines 611-616)
VectaraResponds(code) ==
  /\ vectara.pc = "fetching"
  /\ LET i == vectara.position
         id == fetches[Len(fetches)].data.document_id
     IN  /\ code \in Answers(corpus, id)
         /\ corpus' = Indexed(corpus, id, code)
         /\ IF Succeeded(code)
              THEN /\ doc_ids' = Append(doc_ids, id)
                   /\ countAdded' = countAdded + 1
                   /\ IF i < Len(vectara.documents)
                        THEN /\ vectara' = [vectara EXCEPT !.position = i + 1]
                             /\ fetches' =
                                  Append([fetches EXCEPT
                                            ![Len(fetches)].state = "answered",
                                            ![Len(fetches)].code = code],
                                         Fetch(vectara.documents[i + 1], i + 1))
                        ELSE /\ vectara' = [vectara EXCEPT
                                              !.pc = "resolved",
                                              !.returned = doc_ids']
                             /\ fetches' = [fetches EXCEPT
                                              ![Len(fetches)].state = "answered",
                                              ![Len(fetches)].code = code]
              ELSE /\ vectara' = [vectara EXCEPT !.pc = "rejected",
                                                 !.code = 500]
                   /\ fetches' = [fetches EXCEPT
                                    ![Len(fetches)].state = "answered",
                                    ![Len(fetches)].code = code]
                   /\ UNCHANGED <<doc_ids, countAdded>>
  /\ UNCHANGED <<upstashVars, postgresVars, redisVars, corpusId>>

\* lines 585-591 and 610-616: fetch rejects (no connection, or the abort
\* after the timeout) or the body is no JSON; the catch throws an error with
\* code 500.  The service may have indexed the document all the same.
VectaraRequestFails(indexed) ==
  /\ vectara.pc = "fetching"
  /\ LET id == fetches[Len(fetches)].data.document_id
     IN  corpus' = IF indexed THEN corpus \cup {id} ELSE corpus
  /\ fetches' = [fetches EXCEPT ![Len(fetches)].state = "failed"]
  /\ vectara' = [vectara EXCEPT !.pc = "rejected", !.code = 500]
  /\ UNCHANGED <<upstashVars, postgresVars, redisVars, corpusId, doc_ids,
                 countAdded>>

(***************************************************************************)
(* Inputs.                                                                 *)
(***************************************************************************)
\* addVectors(vectors, documents, options) with n vectors, m documents
\* (the pool's documents from offset o on) and options.ids absent or ids
Batch(n, m, o, hasIds, ids) ==
  [vectors |-> [i \in 1..n |-> Vec(i)],
   documents |-> [i \in 1..m |-> Doc(o + i - 1)],
   hasIds |-> hasIds, ids |-> ids]

\* lengths that differ from n by at most one
Near(n) == {l \in 0..MaxN : l - n \in {-1, 0, 1}}

IdLists(l) == [1..l -> CallerIds]

\* every call shape: arrays of equal and of unequal lengths, ids generated,
\* given, repeated, too few and too many
Batches ==
  {Batch(n, m, o, FALSE, <<>>) : n \in 0..MaxN, m \in 0..MaxN, o \in {0, 1}}
  \cup UNION { UNION { {Batch(n, m, 0, TRUE, ids) : ids \in IdLists(l)}
                       : <<m, l>> \in Near(n) \X Near(n)} : n \in 0..MaxN}

\* the calls that keep the contract of equal lengths
WellFormed(a) ==
  /\ Len(a.documents) = Len(a.vectors)
  /\ a.hasIds => Len(a.ids) = Len(a.vectors)

\* calls of equal lengths up to maxLen, without ids or with the ids
\* a, b, a, b, ...
PlainBatches(maxLen) ==
  {Batch(n, n, 0, FALSE, <<>>) : n \in 0..maxLen}
  \cup {Batch(n, n, 0, TRUE, [i \in 1..n |-> IF i % 2 = 1 THEN "a" ELSE "b"])
          : n \in 1..maxLen}

BooleanParams ==
  {[present |-> FALSE, value |-> FALSE], [present |-> TRUE, value |-> TRUE],
   [present |-> TRUE, value |-> FALSE]}

IdsParams ==
  {NoIdsParam, StringIds("a"), StringIds(""), ArrayIds(<<>>),
   ArrayIds(<<"a">>), ArrayIds(<<"a", "uuid-1-1">>)}

DeleteParams == [ids : IdsParams, deleteAll : BooleanParams]

(***************************************************************************)
(* The state after construction (lines 60-70): no call made, the caller's  *)
(* queue empty, the index as the application passed it in.                 *)
(***************************************************************************)
EmptyIndex == [k \in {} |-> Undefined]

\* an index that already holds a vector stored without metadata
ExternalIndex ==
  [k \in {ExternalId} |->
     [vector |-> Vec(1), hasMetadata |-> FALSE, metadata |-> EmptyMetadata]]

UpstashWith(limits, concurrencies, retries, indexes) ==
  /\ CONCURRENT_UPSERT_LIMIT \in limits
  /\ caller \in [maxConcurrency : concurrencies, maxRetries : retries,
                 queue : {<<>>}]
  /\ index \in indexes
  /\ pc = [c \in Calls |-> "idle"]
  /\ args = [c \in Calls |-> NoArgs]
  /\ documentIds = [c \in Calls |-> <<>>]
  /\ upstashVectors = [c \in Calls |-> <<>>]
  /\ vectorChunks = [c \in Calls |-> <<>>]
  /\ batchRequests = [c \in Calls |-> <<>>]
  /\ returned = [c \in Calls |-> <<>>]
  /\ thrown = [c \in Calls |-> NoError]
  /\ sinkCalls = [reset |-> 0, delete |-> 0]
  /\ lastDelete = NoDelete
  /\ lastQuery = NoQuery
  /\ embedCalls = <<>>

\* the UpstashVectorStore left as constructed, with an empty index
UpstashConstructed ==
  UpstashWith({MaxChunkSize}, {MaxConcurrency}, {0}, {EmptyIndex})

\* every store as constructed, the RedisByteStore with one of the namespaces
InitStores(namespaces) ==
  /\ UpstashConstructed
  /\ PostgresConstructed({"s1"}, Operations)
  /\ RedisConstructed(namespaces)
  /\ VectaraConstructed({<<1>>}, {{}})

\* an UpstashVectorStore at work, the other stores left as constructed
InitWith(limits, concurrencies, retries, indexes) ==
  /\ UpstashWith(limits, concurrencies, retries, indexes)
  /\ PostgresConstructed({"s1"}, Operations)
  /\ RedisConstructed({NoNamespace})
  /\ VectaraConstructed({<<1>>}, {{}})

Init ==
  InitWith(1..MaxChunkSize, 1..MaxConcurrency, RetryLimits,
           {EmptyIndex, ExternalIndex})

(***************************************************************************)
(* Specifications.                                                         *)
(***************************************************************************)
\* the caller and the index at work on the thunks of the calls made
Pipeline ==
  \/ StartThunk
  \/ \E c \in Calls, i \in 1..MaxN : UpsertSucceeds(c, i)
  \/ \E c \in Calls, i \in 1..MaxN, retryable \in BOOLEAN :
       UpsertFails(c, i, retryable)
  \/ \E c \in Calls, i \in 1..MaxN : RetryThunk(c, i)
  \/ \E c \in Calls : ResolveAddVectors(c)
  \/ \E c \in Calls : RejectAddVectors(c)

\* one addVectors call of any shape
Next ==
  \/ \E a \in Batches : AddVectors(1, a)
  \/ Pipeline

Spec == Init /\ [][Next]_vars

\* non-empty calls of equal lengths with generated ids
OverlapBatches == {Batch(n, n, 0, FALSE, <<>>) : n \in 1..MaxOverlapN}

\* addVectors calls of equal lengths that overlap on one store, numbered in
\* the order they are made; a limit of MaxOverlapN already leaves every
\* batch in one chunk
NextConcurrent ==
  \/ \E c \in Calls, a \in OverlapBatches :
       /\ \A earlier \in 1..(c - 1) : pc[earlier] # "idle"
       /\ AddVectors(c, a)
  \/ Pipeline

SpecConcurrent ==
  /\ InitWith(1..MaxOverlapN, 1..MaxConcurrency, RetryLimits, {EmptyIndex})
  /\ [][NextConcurrent]_vars

\* one addVectors call and one delete call that overlap
NextDelete ==
  \/ \E a \in PlainBatches(MaxN) : AddVectors(1, a)
  \/ Pipeline
  \/ \E params \in DeleteParams, sinkOk \in BOOLEAN : Delete(params, sinkOk)

SpecDelete ==
  /\ InitWith(1..MaxChunkSize, {MaxConcurrency}, RetryLimits, {ExternalIndex})
  /\ [][NextDelete]_vars

\* calls of equal lengths with generated ids and at most MaxK items, over
\* every run of documents
CodecBatches ==
  {a \in Batches : WellFormed(a) /\ ~a.hasIds /\ Len(a.vectors) <= MaxK}

\* one addVectors call and one similarity search that overlap
NextSearch ==
  \/ \E a \in CodecBatches : AddVectors(1, a)
  \/ Pipeline
  \/ \E query \in Queries, k \in 1..MaxK, filter \in Filters :
       \E results \in AnswersOf(index, k) : Search(query, k, filter, results)
  \/ \E query \in Queries, k \in 1..MaxK, filter \in Filters :
       SearchFails(query, k, filter)

SpecSearch ==
  /\ InitWith({MaxChunkSize}, {MaxConcurrency}, RetryLimits,
              {EmptyIndex, ExternalIndex})
  /\ [][NextSearch]_vars

\* one addVectors call of equal lengths, with generated ids or with the ids
\* a, b, a, ..., on an empty index
NextChunks ==
  \/ \E a \in PlainBatches(MaxN) : AddVectors(1, a)
  \/ Pipeline

SpecChunks ==
  /\ InitWith(1..MaxChunkSize, 1..MaxConcurrency, RetryLimits, {EmptyIndex})
  /\ [][NextChunks]_vars

\* one addDocuments call, of documents without ids or with the ids
\* a, b, a, ...
NextDocuments ==
  \/ \E a \in PlainBatches(MaxN) :
       AddDocuments(1, a.documents, a.hasIds, a.ids)
  \/ \E c \in Calls : EmbedSucceeds(c)
  \/ \E c \in Calls : EmbedFails(c)
  \/ Pipeline

SpecDocuments ==
  /\ InitWith(1..MaxChunkSize, 1..MaxConcurrency, RetryLimits, {EmptyIndex})
  /\ [][NextDocuments]_vars

\* addMessage, getMessages and clear calls that overlap on one history
NextPostgres ==
  \/ \E o \in Operations, kind \in Kinds :
       \E message \in MessagesOf(kind, {Greeting}) :
         Call(o, "s1", kind, message)
  \/ \E o \in Operations : CreateSucceeds(o)
  \/ \E o \in Operations, e \in CreateErrors : CreateFails(o, e)
  \/ \E o \in Operations : IssueStatement(o)
  \/ \E o \in Operations : StatementSucceeds(o)
  \/ \E o \in Operations, e \in StatementErrors : StatementFails(o, e)

SpecPostgres == InitStores({NoNamespace}) /\ [][NextPostgres]_vars

\* every store as constructed, with one history for each session id
InitSessions(sessions, calls) ==
  /\ UpstashConstructed
  /\ PostgresConstructed(sessions, calls)
  /\ RedisConstructed({NoNamespace})
  /\ VectaraConstructed({<<1>>}, {{}})

\* a sequence of addMessage, getMessages and clear calls on the histories of
\* the sessions, each made when the one before it has returned; the pool
\* answers every statement with success
NextSessions ==
  \/ \E o \in SessionCalls, session \in Sessions, kind \in Kinds :
       \E message \in MessagesOf(kind, Messages) :
         /\ \A earlier \in 1..(o - 1) :
              operations[earlier].pc = "resolved"
         /\ Call(o, session, kind, message)
  \/ \E o \in SessionCalls : CreateSucceeds(o)
  \/ \E o \in SessionCalls : IssueStatement(o)
  \/ \E o \in SessionCalls : StatementSucceeds(o)

SpecSessions == InitSessions(Sessions, SessionCalls) /\ [][NextSessions]_vars

\* every store as constructed, the VectaraStore with one corpus id or with
\* several, over a corpus that is empty or not
InitVectara(corpusIds, corpora) ==
  /\ UpstashConstructed
  /\ PostgresConstructed({"s1"}, Operations)
  /\ RedisConstructed({NoNamespace})
  /\ VectaraConstructed(corpusIds, corpora)

\* one addDocuments call on a VectaraStore
NextVectara ==
  \/ \E documents \in DocumentLists : VectaraAddDocuments(documents)
  \/ \E code \in StatusCodes : VectaraResponds(code)
  \/ \E indexed \in BOOLEAN : VectaraRequestFails(indexed)

SpecVectara == InitVectara(CorpusIds, Corpora) /\ [][NextVectara]_vars

\* one yieldKeys call read to its end on a store with or without namespace
NextRedis ==
  \/ \E prefix \in Prefixes : YieldKeys(prefix)
  \/ \E nextCursor \in Cursors :
       \E keys \in ScanBatches(generator.pattern) :
         ScanAnswers(nextCursor, keys)
  \/ ScanFails
  \/ YieldKey
  \/ ScanAgain
  \/ ReturnKeys

SpecRedis == InitStores(Namespaces) /\ [][NextRedis]_vars

(***************************************************************************)
(* Properties.                                                             *)
(***************************************************************************)
RECURSIVE Flatten(_)
Flatten(seqs) == IF seqs = <<>> THEN <<>> ELSE Head(seqs) \o Flatten(Tail(seqs))

\* the argument of the last upsert call a thunk made
LastUpsert(request) == request.upserts[Len(request.upserts)]

\* the chunks sent to the index for call c, one per thunk, in dispatch order
SentChunks(c) ==
  [j \in 1..Len(batchRequests[c]) |-> LastUpsert(batchRequests[c][j])]

\* the ids addVectors is to return: the caller's, or the generated ones
ExpectedIds(c) ==
  IF args[c].hasIds THEN args[c].ids
  ELSE [i \in 1..Len(args[c].vectors) |-> Uuid(c, i)]

\* C1: an addVectors call with n vectors, n documents and, when ids are
\* given, n ids, whose chunk upserts all succeeded, has returned exactly n
\* ids: the caller's ids as given, or the generated ones; the i-th returned
\* id is the id of the i-th item sent to the index, and that item holds the
\* i-th vector and the encoding of the i-th document.  The returned list
\* does not depend on CONCURRENT_UPSERT_LIMIT, which ranges over
\* 1..MaxChunkSize.
C1_ReturnedIdsInInputOrder ==
  \A c \in Calls :
    (pc[c] = "resolved" /\ WellFormed(args[c])) =>
      LET n == Len(args[c].vectors)
          sent == Flatten(SentChunks(c))
      IN  /\ Len(returned[c]) = n
          /\ returned[c] = ExpectedIds(c)
          /\ Len(sent) = n
          /\ \A i \in 1..n :
               /\ sent[i].id = returned[c][i]
               /\ sent[i].vector = args[c].vectors[i]
               /\ sent[i].metadata = Encode(args[c].documents[i])

\* C1's case: three items with the caller's ids, cut into two chunks, all
\* upserted, and the call has returned
C1_Witness ==
  \E c \in Calls :
    /\ pc[c] = "resolved" /\ WellFormed(args[c]) /\ args[c].hasIds
    /\ Len(args[c].vectors) = 3
    /\ Len(vectorChunks[c]) = 2

\* the items of call c as the caller passed them: the i-th id, the i-th
\* vector and the i-th document's metadata record
InputItem(c, i) ==
  [id |-> At(documentIds[c], i), vector |-> args[c].vectors[i],
   metadata |-> Encode(args[c].documents[i])]

\* C2: in every addVectors call that reaches the chunking (line 120), the
\* chunks are contiguous, non-empty and of at most CONCURRENT_UPSERT_LIMIT
\* items and their concatenation in dispatch order is the sequence of input
\* items; there is one thunk per chunk, every upsert call a thunk makes
\* carries exactly its chunk, a thunk in the queue has made none, and a
\* thunk that left the queue has made one call per run by the caller: one,
\* plus one for each retry (exactly one when the caller never retries).
C2_ChunksPartitionInput ==
  \A c \in Calls :
    (pc[c] # "idle" /\ thrown[c] # "TypeError") =>
      /\ Len(upstashVectors[c]) = Len(args[c].vectors)
      /\ \A i \in 1..Len(upstashVectors[c]) :
           upstashVectors[c][i] = InputItem(c, i)
      /\ \A j \in 1..Len(vectorChunks[c]) :
           /\ Len(vectorChunks[c][j]) >= 1
           /\ Len(vectorChunks[c][j]) <= CONCURRENT_UPSERT_LIMIT
      /\ Flatten(vectorChunks[c]) = upstashVectors[c]
      /\ Len(batchRequests[c]) = Len(vectorChunks[c])
      /\ \A j \in 1..Len(batchRequests[c]) :
           LET request == batchRequests[c][j]
           IN  /\ request.chunk = vectorChunks[c][j]
               /\ \A u \in 1..Len(request.upserts) :
                    request.upserts[u] = vectorChunks[c][j]
               /\ request.state = "queued" => request.upserts = <<>>
               /\ request.state # "queued" =>
                    /\ Len(request.upserts) >= 1
                    /\ Len(request.upserts) <= 1 + caller.maxRetries
               /\ request.state = "backoff" =>
                    Len(request.upserts) <= caller.maxRetries

\* C2's case: three items cut by a limit of two into chunks of two and one,
\* both upserted by a caller that never retries
C2_Witness ==
  \E c \in Calls :
    /\ CONCURRENT_UPSERT_LIMIT = 2 /\ caller.maxRetries = 0
    /\ Len(args[c].vectors) = 3
    /\ Len(vectorChunks[c]) = 2
    /\ Len(vectorChunks[c][1]) = 2 /\ Len(vectorChunks[c][2]) = 1
    /\ AllFulfilled(batchRequests[c])

\* the ids of the items of a chunk
IdsOf(chunk) == {chunk[i].id : i \in 1..Len(chunk)}

\* C3: a chunk upsert fails when the promise of its caller.call is rejected
\* (the caller has given up on it).  A call with such a chunk never
\* resolves and has no return value; the step in which addVectors rejects
\* changes neither the index nor the number of delete and reset requests,
\* and no step of the pipeline sends a delete or a reset: what the fulfilled
\* chunks stored stays stored.
C3_FailureIsTotalAndNotRolledBack ==
  /\ [](\A c \in Calls :
          SomeRejected(batchRequests[c]) =>
            /\ pc[c] \in {"awaiting", "rejected"}
            /\ returned[c] = <<>>)
  /\ [][\A c \in Calls :
          (pc[c] = "awaiting" /\ pc'[c] = "rejected") =>
            /\ index' = index
            /\ sinkCalls' = sinkCalls
            /\ thrown'[c] = "UpstreamFailure"]_vars
  /\ [][lastDelete' = lastDelete => sinkCalls' = sinkCalls]_vars

\* C3's case: the call has rejected, one chunk's upsert failed for good and
\* another chunk's items are in the index
C3_Witness ==
  \E c \in Calls :
    /\ pc[c] = "rejected" /\ thrown[c] = "UpstreamFailure"
    /\ \E j, k \in 1..Len(batchRequests[c]) :
         /\ batchRequests[c][j].state = "rejected"
         /\ batchRequests[c][k].state = "fulfilled"
         /\ IdsOf(batchRequests[c][k].chunk) \subseteq DOMAIN index

\* C4: for a document whose metadata has the reserved key, the metadata
\* record built for the index holds the document's text under that key, and
\* decoding the record gives the document's text.
C4_DocumentTextWins ==
  \A c \in Calls :
    \A i \in 1..Len(upstashVectors[c]) :
      RESERVED_KEY \in DOMAIN args[c].documents[i].metadata =>
        /\ upstashVectors[c][i].metadata[RESERVED_KEY]
             = args[c].documents[i].pageContent
        /\ Decode([hasMetadata |-> TRUE,
                   metadata |-> upstashVectors[c][i].metadata]).pageContent
             = args[c].documents[i].pageContent

\* C8: a call whose vectors, documents and ids (when given) differ in length
\* is rejected and hands no chunk to the caller.
C8_MismatchIsRejected ==
  \A c \in Calls :
    (pc[c] # "idle" /\ ~WellFormed(args[c])) =>
      /\ pc[c] = "rejected"
      /\ batchRequests[c] = <<>>

\* C10: a call with no vectors, no documents and no ids makes no chunk and
\* hands nothing to the caller (so it makes no upsert call); it does not
\* fail, its await can return at once, and it returns the empty list.
C10_EmptyBatchContactsNothing ==
  \A c \in Calls :
    (/\ pc[c] # "idle"
     /\ args[c].vectors = <<>> /\ args[c].documents = <<>>
     /\ args[c].ids = <<>>) =>
      /\ vectorChunks[c] = <<>>
      /\ batchRequests[c] = <<>>
      /\ \A q \in 1..Len(caller.queue) : caller.queue[q][1] # c
      /\ pc[c] \in {"awaiting", "resolved"}
      /\ AllFulfilled(batchRequests[c])
      /\ pc[c] = "resolved" => returned[c] = <<>>
      /\ index \in {EmptyIndex, ExternalIndex}
      /\ sinkCalls = [reset |-> 0, delete |-> 0]

\* C10's case: the empty call has returned
C10_Witness ==
  \E c \in Calls :
    /\ pc[c] = "resolved"
    /\ args[c].vectors = <<>> /\ args[c].documents = <<>>
    /\ returned[c] = <<>>

\* C5: when the index returns the metadata record that addVectors stored for
\* a document without the reserved key, the search result built from that
\* hit is a document with the same text and exactly the same metadata.
C5_RoundTrip ==
  (lastQuery.made /\ lastQuery.state = "resolved") =>
    \A j \in 1..Len(lastQuery.queryResult) :
      \A c \in Calls :
        \A i \in 1..Len(upstashVectors[c]) :
          (/\ RESERVED_KEY \notin DOMAIN args[c].documents[i].metadata
           /\ lastQuery.queryResult[j].hasMetadata
           /\ lastQuery.queryResult[j].id = upstashVectors[c][i].id
           /\ lastQuery.queryResult[j].metadata = upstashVectors[c][i].metadata) =>
            /\ lastQuery.searchResult[j].document = args[c].documents[i]
            /\ RESERVED_KEY \notin
                 DOMAIN lastQuery.searchResult[j].document.metadata

\* C5's case: a search has returned a hit for a stored document that has a
\* metadata key of its own and not the reserved key
C5_Witness ==
  /\ lastQuery.made /\ lastQuery.state = "resolved"
  /\ \E j \in 1..Len(lastQuery.queryResult) :
       \E c \in Calls :
         \E i \in 1..Len(upstashVectors[c]) :
           /\ args[c].documents[i].metadata = [source |-> "s"]
           /\ lastQuery.queryResult[j].hasMetadata
           /\ lastQuery.queryResult[j].id = upstashVectors[c][i].id
           /\ lastQuery.queryResult[j].metadata = upstashVectors[c][i].metadata
           /\ lastQuery.searchResult[j].document.pageContent = "dog"

\* C6: a search the index answered resolves with one pair per hit, in the
\* order of the hits: the j-th pair has the j-th hit's score and the document
\* decoded from the j-th hit's metadata (text undefined and metadata empty
\* when the hit has no metadata); fewer hits than k give as many pairs.
C6_ResultsAsReturned ==
  (lastQuery.made /\ lastQuery.answered) =>
    /\ lastQuery.state = "resolved"
    /\ Len(lastQuery.searchResult) = Len(lastQuery.queryResult)
    /\ \A j \in 1..Len(lastQuery.queryResult) :
         LET hit == lastQuery.queryResult[j]
             pair == lastQuery.searchResult[j]
         IN  /\ pair.score = hit.score
             /\ hit.hasMetadata =>
                  /\ RESERVED_KEY \in DOMAIN hit.metadata =>
                       pair.document.pageContent = hit.metadata[RESERVED_KEY]
                  /\ DOMAIN pair.document.metadata
                       = DOMAIN hit.metadata \ {RESERVED_KEY}
                  /\ \A k \in DOMAIN pair.document.metadata :
                       pair.document.metadata[k] = hit.metadata[k]
             /\ ~hit.hasMetadata =>
                  /\ pair.document.pageContent = Undefined
                  /\ pair.document.metadata = EmptyMetadata

\* C6's case: k is 2 and the index answered with one hit, which has no
\* metadata
C6_Witness ==
  /\ lastQuery.made /\ lastQuery.state = "resolved"
  /\ lastQuery.request.topK = 2
  /\ Len(lastQuery.queryResult) = 1
  /\ ~lastQuery.queryResult[1].hasMetadata
  /\ Len(lastQuery.searchResult) = 1

\* C7: a delete call that gives both ids and deleteAll, or neither, is
\* rejected with a validation error and sends no request to the index.
C7_BothOrNeitherIsRejected ==
  (/\ lastDelete.made
   /\ lastDelete.params.ids.present = lastDelete.params.deleteAll.present) =>
    /\ lastDelete.state = "rejected"
    /\ lastDelete.error = "ValidationError"
    /\ lastDelete.request = "none"
    /\ sinkCalls = [reset |-> 0, delete |-> 0]

\* every thunk of every call, as <<call, chunk number>>
Thunks ==
  {r \in Calls \X (1..MaxN) : r[2] <= Len(batchRequests[r[1]])}

\* C9: the upsert requests in flight never outnumber the caller's
\* maxConcurrency; a thunk is in the caller's queue exactly while it has not
\* run; and an upsert call is made only by a thunk that the caller runs: one
\* it takes from the head of its queue while a place is free, or one it
\* retries, which keeps its place.
C9_UpsertsGoThroughCaller ==
  /\ [](Cardinality(InFlight) <= caller.maxConcurrency)
  /\ [](\A r \in Thunks :
          batchRequests[r[1]][r[2]].state = "queued"
            <=> \E q \in 1..Len(caller.queue) : caller.queue[q] = r)
  /\ [][\A r \in Thunks :
          (/\ r[2] <= Len(batchRequests'[r[1]])
           /\ Len(batchRequests'[r[1]][r[2]].upserts)
                > Len(batchRequests[r[1]][r[2]].upserts)) =>
            \/ /\ caller.queue # <<>> /\ Head(caller.queue) = r
               /\ Cardinality(Running) < caller.maxConcurrency
            \/ batchRequests[r[1]][r[2]].state = "backoff"]_vars

\* C9's case: two calls are awaiting, as many upserts are in flight as the
\* caller allows, upserts of both calls among them, and a thunk waits
C9_Witness ==
  /\ \A c \in Calls : pc[c] = "awaiting"
  /\ Cardinality(InFlight) = caller.maxConcurrency
  /\ \A c \in Calls : \E r \in InFlight : r[1] = c
  /\ caller.queue # <<>>

\* C11: delete has two modes that exclude one another.  A call with ids
\* that are not empty and without a true deleteAll sends exactly one delete
\* request, with exactly the ids it was given, and no reset; a call with a
\* true deleteAll and no ids sends exactly one reset and no delete; no call
\* sends both.  The step of a delete call leaves the addVectors calls, the
\* caller's queue and the search alone, and changes the index only as the
\* one request it sent does.
C11_DeleteModesExclusive ==
  /\ [](lastDelete.made =>
          LET params == lastDelete.params
          IN  /\ sinkCalls.reset + sinkCalls.delete <= 1
              /\ (/\ params.ids.present
                  /\ params.ids.list \notin {<<>>, <<"">>}
                  /\ ~DeleteAllTruthy(params.deleteAll)) =>
                   /\ sinkCalls = [reset |-> 0, delete |-> 1]
                   /\ lastDelete.request = "delete"
                   /\ lastDelete.sent = params.ids
              /\ (~params.ids.present /\ DeleteAllTruthy(params.deleteAll)) =>
                   /\ sinkCalls = [reset |-> 1, delete |-> 0]
                   /\ lastDelete.request = "reset")
  /\ [][lastDelete' # lastDelete =>
          /\ UNCHANGED <<caller, callVars, batchRequests, lastQuery>>
          /\ \/ index' = index
             \/ /\ lastDelete'.request = "reset" /\ index' = ResetIndex
             \/ /\ lastDelete'.request = "delete"
                /\ index' = DeleteFromIndex(index, lastDelete'.sent)]_vars

\* C11's case: a delete with two ids and no deleteAll has been carried out
\* while an addVectors call had stored the second id
C11_Witness ==
  /\ lastDelete.made /\ lastDelete.state = "resolved"
  /\ lastDelete.params.ids = ArrayIds(<<"a", "uuid-1-1">>)
  /\ ~lastDelete.params.deleteAll.present
  /\ sinkCalls.delete = 1
  /\ pc[1] = "resolved" /\ ~args[1].hasIds
  /\ "uuid-1-1" \notin DOMAIN index

\* C12: in a call of equal lengths whose chunk upserts all succeeded, the
\* ids of the items sent to the index are pairwise distinct, whether the
\* store generated them or the caller gave them.
C12_IdsPairwiseDistinct ==
  \A c \in Calls :
    (pc[c] = "resolved" /\ WellFormed(args[c])) =>
      LET sent == Flatten(SentChunks(c))
      IN  \A i, j \in 1..Len(sent) : i # j => sent[i].id # sent[j].id

\* C13: the step in which addVectors reaches its await (line 126) has given
\* every chunk to the caller, chunk i before chunk i+1, and none of them has
\* run yet; the caller starts chunk i before chunk i+1; and a call of equal
\* lengths that resolves returns the ids in input order, in whichever order
\* the upserts of its chunks completed.
C13_DispatchInInputOrder ==
  /\ [][\A c \in Calls :
          (pc[c] # "awaiting" /\ pc'[c] = "awaiting") =>
            /\ Len(batchRequests'[c]) = Len(vectorChunks'[c])
            /\ caller'.queue = caller.queue \o
                 [i \in 1..Len(vectorChunks'[c]) |-> <<c, i>>]
            /\ \A i \in 1..Len(batchRequests'[c]) :
                 /\ batchRequests'[c][i].chunk = vectorChunks'[c][i]
                 /\ batchRequests'[c][i].state = "queued"]_vars
  /\ [](\A c \in Calls :
          \A i \in 1..(Len(batchRequests[c]) - 1) :
            batchRequests[c][i].state = "queued" =>
              batchRequests[c][i + 1].state = "queued")
  /\ [](\A c \in Calls :
          (pc[c] = "resolved" /\ WellFormed(args[c])) =>
            returned[c] = ExpectedIds(c))

\* C13's case: the ids a, b, a went out in the chunks (a, b) and (a); the
\* index holds the first vector under a, so the second chunk's upsert
\* completed before the first chunk's; the call returned a, b, a
C13_Witness ==
  \E c \in Calls :
    /\ pc[c] = "resolved" /\ WellFormed(args[c])
    /\ args[c].ids = <<"a", "b", "a">>
    /\ Len(vectorChunks[c]) = 2 /\ Len(vectorChunks[c][1]) = 2
    /\ index["a"].vector = args[c].vectors[1]
    /\ returned[c] = <<"a", "b", "a">>

\* C14: a similarity search with the arguments q, k and filter has sent
\* exactly one query to the index, whether the index answered or failed:
\* its vector is q, its topK is k, it asks for the metadata, and its filter
\* is the caller's filter argument as given, absent when the caller gave
\* none.
C14_OneQueryAsGiven ==
  lastQuery.made =>
    /\ Len(lastQuery.queries) = 1
    /\ lastQuery.queries[1] =
         [vector |-> lastQuery.args.query, topK |-> lastQuery.args.k,
          includeMetadata |-> TRUE, filter |-> lastQuery.args.filter]
    /\ ~lastQuery.args.filter.present =>
         lastQuery.queries[1].filter = NoFilter

\* C14's case: a search for the second vector with k = 2 and a filter has
\* been answered
C14_Witness ==
  /\ lastQuery.made /\ lastQuery.answered
  /\ lastQuery.args.query = Vec(2) /\ lastQuery.args.k = 2
  /\ lastQuery.args.filter.present
  /\ lastQuery.queries[1].filter.expression = "source = 's'"

\* the embedDocuments calls that addDocuments call c made
EmbedCallsOf(c) == {j \in 1..Len(embedCalls) : embedCalls[j].call = c}

\* C15: an addDocuments call has called the embedding provider exactly
\* once, with the texts of its documents in input order.  While the provider
\* has not answered, and for good when it failed, the call has given no
\* chunk to the caller and the index is untouched; when the provider failed
\* the call has failed.  When it answered, the i-th item built for the index
\* holds the i-th returned vector and the i-th document's record, every
\* upsert call carries such items only, and a call that resolved has sent
\* all of them.
C15_EmbedOnceBeforeUpsert ==
  \A c \in Calls :
    pc[c] # "idle" =>
      /\ Cardinality(EmbedCallsOf(c)) = 1
      /\ \A j \in EmbedCallsOf(c) :
           LET call == embedCalls[j]
               n == Len(args[c].documents)
           IN  /\ Len(call.texts) = n
               /\ \A i \in 1..n :
                    call.texts[i] = args[c].documents[i].pageContent
               /\ call.state = "pending" <=> pc[c] = "embedding"
               /\ call.state # "resolved" =>
                    /\ batchRequests[c] = <<>>
                    /\ \A q \in 1..Len(caller.queue) : caller.queue[q][1] # c
                    /\ index = EmptyIndex
               /\ call.state = "rejected" =>
                    /\ pc[c] = "rejected"
                    /\ thrown[c] = "EmbeddingFailure"
               /\ call.state = "resolved" =>
                    /\ Len(call.embeddings) = n
                    /\ Len(upstashVectors[c]) = n
                    /\ \A i \in 1..n :
                         /\ upstashVectors[c][i].vector = call.embeddings[i]
                         /\ upstashVectors[c][i].metadata
                              = Encode(args[c].documents[i])
                    /\ \A r \in 1..Len(batchRequests[c]) :
                         \A u \in 1..Len(batchRequests[c][r].upserts) :
                           \A x \in 1..Len(batchRequests[c][r].upserts[u]) :
                             \E i \in 1..n :
                               batchRequests[c][r].upserts[u][x]
                                 = upstashVectors[c][i]
                    /\ pc[c] = "resolved" =>
                         Flatten(SentChunks(c)) = upstashVectors[c]

\* C15's case: three documents were embedded by one call of the provider
\* and upserted in two chunks; the index holds the three vectors returned
C15_Witness ==
  \E c \in Calls :
    /\ pc[c] = "resolved" /\ Len(args[c].documents) = 3
    /\ Len(embedCalls) = 1 /\ embedCalls[1].state = "resolved"
    /\ embedCalls[1].texts = <<"cat", "dog", "cat">>
    /\ Len(vectorChunks[c]) = 2
    /\ \A i \in 1..3 :
         /\ returned[c][i] \in DOMAIN index
         /\ index[returned[c][i]].vector = embedCalls[1].embeddings[i]

\* how often thunk r stands in a queue
Occurrences(queue, r) == Cardinality({q \in 1..Len(queue) : queue[q] = r})

\* every <<call, chunk number>> a thunk can have
ThunkNames == Calls \X (1..MaxN)

\* C16: addVectors retries nothing and hides no failure.  A chunk stands in
\* the caller's queue once while it waits and never again; chunks enter the
\* queue only in the step in which their call reaches its await, and leave
\* it only from its head, to run; a thunk makes one upsert call each time
\* the caller runs it (first run or retry) and none otherwise; a chunk whose
\* promise is rejected or fulfilled is never run again; a call with a
\* rejected chunk never resolves and stays rejected; and the step in which
\* the call rejects leaves the caller, every chunk's promise, the index and
\* the delete and reset counts as they are.
C16_NoRetryNoCancelNoUndo ==
  /\ [](\A r \in Thunks :
          Occurrences(caller.queue, r)
            = IF batchRequests[r[1]][r[2]].state = "queued" THEN 1 ELSE 0)
  /\ [][\A r \in ThunkNames :
          Occurrences(caller'.queue, r) > Occurrences(caller.queue, r) =>
            pc[r[1]] # "awaiting" /\ pc'[r[1]] = "awaiting"]_vars
  /\ [][\A r \in ThunkNames :
          Occurrences(caller'.queue, r) < Occurrences(caller.queue, r) =>
            /\ Head(caller.queue) = r
            /\ batchRequests'[r[1]][r[2]].state = "inflight"]_vars
  /\ [][\A r \in Thunks :
          LET before == batchRequests[r[1]][r[2]]
              after == batchRequests'[r[1]][r[2]]
              runs == /\ before.state \in {"queued", "backoff"}
                      /\ after.state = "inflight"
          IN  /\ runs => after.upserts = Append(before.upserts, before.chunk)
              /\ ~runs => after.upserts = before.upserts
              /\ before.state \in {"rejected", "fulfilled"} => after = before
         ]_vars
  /\ [](\A c \in Calls :
          SomeRejected(batchRequests[c]) => pc[c] \in {"awaiting", "rejected"})
  /\ [][\A c \in Calls :
          /\ pc[c] = "rejected" => pc'[c] = "rejected"
          /\ (pc[c] = "awaiting" /\ pc'[c] = "rejected") =>
               /\ thrown'[c] = "UpstreamFailure"
               /\ UNCHANGED <<caller, batchRequests, index, sinkCalls>>]_vars

\* C16's case: of three chunks the second failed at its only upsert call
\* and the call has rejected; the first chunk's item is still in the index
\* and the third chunk's upsert, not cancelled, is in flight
C16_Witness ==
  \E c \in Calls :
    /\ pc[c] = "rejected" /\ thrown[c] = "UpstreamFailure"
    /\ Len(batchRequests[c]) = 3
    /\ batchRequests[c][1].state = "fulfilled"
    /\ IdsOf(batchRequests[c][1].chunk) \subseteq DOMAIN index
    /\ batchRequests[c][2].state = "rejected"
    /\ Len(batchRequests[c][2].upserts) = 1
    /\ batchRequests[c][3].state = "inflight"
    /\ Occurrences(caller.queue, <<c, 2>>) = 0

\* C17: when addVectors has returned its ids, every chunk it made has a
\* promise, every promise is fulfilled after at least one upsert call, no
\* chunk waits in the caller's queue, holds a place of the caller or is in
\* flight, and the index holds every id of every chunk.
C17_ResolvedMeansDone ==
  \A c \in Calls :
    pc[c] = "resolved" =>
      /\ Len(batchRequests[c]) = Len(vectorChunks[c])
      /\ \A i \in 1..Len(batchRequests[c]) :
           /\ batchRequests[c][i].state = "fulfilled"
           /\ Len(batchRequests[c][i].upserts) >= 1
           /\ LastUpsert(batchRequests[c][i]) = vectorChunks[c][i]
           /\ <<c, i>> \notin Running \cup InFlight
           /\ Occurrences(caller.queue, <<c, i>>) = 0
           /\ IdsOf(vectorChunks[c][i]) \subseteq DOMAIN index

\* C17's case: a call with three chunks has returned; one of the chunks was
\* upserted at the caller's second attempt
C17_Witness ==
  \E c \in Calls :
    /\ pc[c] = "resolved" /\ returned[c] # <<>>
    /\ Len(batchRequests[c]) = 3
    /\ \E i \in 1..3 : Len(batchRequests[c][i].upserts) = 2

\* a CREATE TABLE that the pool answered with success or with error 23505
Completed(query) ==
  /\ query.statement = "CREATE"
  /\ \/ query.state = "ok"
     \/ query.state = "failed" /\ query.error = PgError(TRUE, "23505")

\* the step gives a statement to the pool
Issues == Len(poolQueries') = Len(poolQueries) + 1

\* the statement the step gives to the pool
IssuedNow == poolQueries'[Len(poolQueries')]

\* C18: whatever the interleaving of the calls on one history, a step that
\* gives an INSERT, SELECT or DELETE to the pool comes after the pool
\* answered, with success or with error 23505, a CREATE TABLE given by the
\* same call or by a call made earlier; the history is initialized exactly
\* when such an answer has come; and a step taken while the history is
\* initialized gives no CREATE TABLE to the pool: a call made then goes on
\* without one.
C18_TableEnsuredBeforeUse ==
  /\ [][(Issues /\ IssuedNow.statement # "CREATE") =>
          \E j \in 1..Len(poolQueries) :
            /\ Completed(poolQueries[j])
            /\ poolQueries[j].operation <= IssuedNow.operation]_vars
  /\ [](initialized["s1"] <=>
          \E j \in 1..Len(poolQueries) : Completed(poolQueries[j]))
  /\ [][initialized["s1"] =>
          /\ Issues => IssuedNow.statement # "CREATE"
          /\ \A o \in Operations :
               (operations[o].pc = "idle" /\ operations'[o].pc # "idle") =>
                 /\ operations'[o].pc = "ensured"
                 /\ poolQueries' = poolQueries]_vars

\* C18's case: two calls overlapped and each gave CREATE TABLE to the pool
\* before any answer; the second call's was answered with error 23505, and
\* that call has given its statement to the pool while the first call still
\* waits for its own CREATE TABLE
C18_Witness ==
  /\ Len(poolQueries) = 3
  /\ poolQueries[1].statement = "CREATE" /\ poolQueries[1].operation = 1
  /\ poolQueries[1].state = "pending"
  /\ poolQueries[2].statement = "CREATE" /\ poolQueries[2].operation = 2
  /\ poolQueries[2].answeredBefore = 0
  /\ poolQueries[2].error = PgError(TRUE, "23505")
  /\ poolQueries[3].statement = "DELETE" /\ poolQueries[3].operation = 2
  /\ initialized["s1"]

\* a CREATE TABLE that the pool answered with an error other than 23505
Refused(query) ==
  /\ query.statement = "CREATE" /\ query.state = "failed"
  /\ ~query.error.hasCode \/ query.error.code # "23505"

\* C19: in the step in which CREATE TABLE fails with an error that has no
\* code or another code than 23505, the call rejects with that error and
\* initialized keeps its value; such a call never gives its INSERT, SELECT
\* or DELETE to the pool.  A call made while the history is not initialized
\* gives CREATE TABLE to the pool.  In the step in which CREATE TABLE fails
\* with code 23505 the history becomes initialized and the call goes on
\* without an error.
C19_CreateFailureIsRethrown ==
  /\ [][\A o \in Operations :
          (operations[o].pc = "creating" /\ operations'[o].pc # "creating") =>
            LET answer == poolQueries'[PendingOf(o)]
            IN  /\ Refused(answer) =>
                     /\ operations'[o].pc = "rejected"
                     /\ operations'[o].error = answer.error
                     /\ initialized' = initialized
                /\ (answer.state = "failed" /\ ~Refused(answer)) =>
                     /\ answer.error = PgError(TRUE, "23505")
                     /\ initialized'["s1"]
                     /\ operations'[o].pc = "ensured"
                     /\ operations'[o].error = NoPgError]_vars
  /\ [](\A j \in 1..Len(poolQueries) :
          Refused(poolQueries[j]) =>
            LET o == poolQueries[j].operation
            IN  /\ operations[o].pc = "rejected"
                /\ operations[o].error = poolQueries[j].error
                /\ \A i \in 1..Len(poolQueries) :
                     poolQueries[i].operation = o => i = j)
  /\ [][\A o \in Operations :
          (/\ ~initialized["s1"]
           /\ operations[o].pc = "idle" /\ operations'[o].pc # "idle") =>
            /\ operations'[o].pc = "creating"
            /\ Issues
            /\ IssuedNow.operation = o /\ IssuedNow.statement = "CREATE"]_vars

\* C19's case: the first call's CREATE TABLE failed with an error without
\* code and the call rejected with it; the history is not initialized, and
\* the call made after that answer has given CREATE TABLE to the pool again
C19_Witness ==
  /\ Len(poolQueries) = 2 /\ ~initialized["s1"]
  /\ poolQueries[1].statement = "CREATE" /\ poolQueries[1].operation = 1
  /\ poolQueries[1].state = "failed"
  /\ poolQueries[1].error = PgError(FALSE, "")
  /\ operations[1].pc = "rejected"
  /\ operations[1].error = PgError(FALSE, "")
  /\ poolQueries[2].statement = "CREATE" /\ poolQueries[2].operation = 2
  /\ poolQueries[2].answeredBefore = 1

\* the keys of every batch SCAN has answered with, in the order answered
ScannedKeys == Flatten([j \in 1..Len(scans) |-> scans[j].keys])

\* name is key without the store's namespace and the delimiter after it
Deprefixed(key, name) ==
  IF namespace = NoNamespace THEN name = key
  ELSE key = namespace \o <<"/">> \o name

\* C20: the first SCAN of a yieldKeys call has cursor 0 and every later
\* SCAN has the cursor that the SCAN before it returned, which is not "0";
\* a SCAN is given only when the one before is answered and all its keys
\* are yielded.  The keys yielded are the keys of the batches answered, in
\* the order of the batches and within each batch, each without the
\* namespace and its delimiter; while a SCAN is awaited and when the
\* iteration has ended, every key answered so far has been yielded.  The
\* iteration has ended only if the last SCAN returned "0"; after a SCAN
\* returned "0" no SCAN follows; and while the last SCAN returned another
\* cursor the iteration has not ended.
C20_ScanUntilCursorZero ==
  /\ [](scans # <<>> =>
          /\ scans[1].cursor = "0"
          /\ \A j \in 1..Len(scans) : scans[j].pattern = generator.pattern
          /\ \A j \in 2..Len(scans) :
               /\ scans[j - 1].answered
               /\ scans[j - 1].nextCursor # "0"
               /\ scans[j].cursor = scans[j - 1].nextCursor)
  /\ [](/\ Len(yielded) <= Len(ScannedKeys)
        /\ \A i \in 1..Len(yielded) : Deprefixed(ScannedKeys[i], yielded[i])
        /\ generator.state \in {"scanning", "completed"} =>
             Len(yielded) = Len(ScannedKeys))
  /\ [](generator.state = "completed" =>
          /\ scans[Len(scans)].answered
          /\ scans[Len(scans)].nextCursor = "0")
  /\ [](\A j \in 1..Len(scans) :
          (scans[j].answered /\ scans[j].nextCursor = "0") => j = Len(scans))
  /\ [][(/\ generator.state = "yielding"
         /\ generator.next > Len(batch)
         /\ generator' # generator) =>
          IF scans[Len(scans)].nextCursor = "0"
            THEN generator'.state = "completed" /\ scans' = scans
            ELSE /\ generator'.state = "scanning"
                 /\ Len(scans') = Len(scans) + 1]_vars

\* C20's case: on a store with namespace n the first SCAN returned cursor 2
\* and two keys, the second SCAN was given cursor 2 and returned "0" and
\* one key; the three keys were yielded without n/ and the iteration ended
C20_Witness ==
  /\ namespace = <<"n">> /\ generator.state = "completed"
  /\ Len(scans) = 2
  /\ scans[1].nextCursor = "2" /\ scans[2].cursor = "2"
  /\ scans[1].keys = << <<"n", "/", "x">>, <<"n", "/", "k">> >>
  /\ scans[2].nextCursor = "0" /\ scans[2].keys = << <<"n", "/", "x">> >>
  /\ yielded = << <<"x">>, <<"k">>, <<"x">> >>

\* the chunks of call c whose promise is rejected
FailedChunks(c) ==
  {i \in 1..Len(batchRequests[c]) : batchRequests[c][i].state = "rejected"}

\* the index answers the in-flight upsert of chunk i of call c while the call
\* stays rejected, and the chunk's items are in the index afterwards
AppliedAfterRejection(c, i) ==
  /\ UpsertSucceeds(c, i)
  /\ pc'[c] = "rejected"
  /\ IdsOf(vectorChunks[c][i]) \subseteq DOMAIN index'

\* C21: addVectors does not wait for the other chunks before it rejects.
\* Whenever a call is at its await and the promise of one of its chunks is
\* rejected, the call can reject at once, whatever the state of its other
\* chunks; whenever a call has rejected with the upsert failure and the
\* upsert of one of its chunks is in flight, the index can still answer
\* that upsert, which puts the chunk's items in the index; and every step
\* in which the promise of a chunk of a rejected call fulfils applies that
\* chunk to the index and leaves the call rejected with the same error.
C21_RejectsWithoutWaiting ==
  /\ [](\A c \in Calls :
          (pc[c] = "awaiting" /\ FailedChunks(c) # {}) =>
            ENABLED RejectAddVectors(c))
  /\ [](\A c \in Calls : \A i \in 1..Len(batchRequests[c]) :
          (/\ pc[c] = "rejected" /\ thrown[c] = "UpstreamFailure"
           /\ batchRequests[c][i].state = "inflight") =>
            ENABLED AppliedAfterRejection(c, i))
  /\ [][\A c \in Calls : \A i \in 1..Len(batchRequests[c]) :
          (/\ pc[c] = "rejected"
           /\ batchRequests[c][i].state = "inflight"
           /\ batchRequests'[c][i].state = "fulfilled") =>
            /\ index' = ApplyUpsert(index, vectorChunks[c][i])
            /\ pc'[c] = "rejected" /\ thrown'[c] = thrown[c]]_vars

\* C21's case: of two chunks the first failed and the call has rejected
\* while the upsert of the second is in flight; none of the second chunk's
\* items is in the index yet, and the index's answer that stores them comes
\* next
C21_Witness ==
  \E c \in Calls :
    /\ pc[c] = "rejected" /\ thrown[c] = "UpstreamFailure"
    /\ Len(batchRequests[c]) = 2
    /\ batchRequests[c][1].state = "rejected"
    /\ batchRequests[c][2].state = "inflight"
    /\ IdsOf(vectorChunks[c][2]) \cap DOMAIN index = {}
    /\ ENABLED AppliedAfterRejection(c, 2)

\* the chat messages of the rows of session s, in the order of their ids
SessionMessages(rows, s) ==
  LET own == OrderById({r \in rows : r.session_id = s})
  IN  [i \in 1..Len(own) |->
         [type |-> own[i].message.type, content |-> own[i].message.content]]

\* the messages added to session s since its last clear by the first n calls
\* of a sequence, counting the calls that have returned
RECURSIVE AddedSinceClear(_, _)
AddedSinceClear(s, n) ==
  IF n = 0 THEN <<>>
  ELSE LET before == AddedSinceClear(s, n - 1)
           call == operations[n]
       IN  IF call.pc # "resolved" \/ call.session # s THEN before
           ELSE IF call.kind = "addMessage" THEN Append(before, call.message)
           ELSE IF call.kind = "clear" THEN <<>>
           ELSE before

\* C22: in a sequence of calls on histories with different session ids that
\* share one table, the rows of each session are, in the order of their ids,
\* the messages added to that session since its last clear, whatever was
\* added to or cleared from the other sessions; and a getMessages that has
\* returned gave the messages added to its session since that session's
\* last clear by the calls before it, in the order in which they were added.
C22_ScopedToSession ==
  /\ \A s \in Sessions :
       SessionMessages(table, s) = AddedSinceClear(s, MaxSessionCalls)
  /\ \A o \in SessionCalls :
       (operations[o].kind = "getMessages" /\ operations[o].pc = "resolved") =>
         operations[o].result = AddedSinceClear(operations[o].session, o - 1)

\* C22's case: a message was added to s1 and another to s2, s1 was cleared,
\* and getMessages on s2 has returned the message of s2; the table holds
\* that message's row only
C22_Witness ==
  /\ \A o \in 1..4 : operations[o].pc = "resolved"
  /\ operations[1].kind = "addMessage" /\ operations[1].session = "s1"
  /\ operations[2].kind = "addMessage" /\ operations[2].session = "s2"
  /\ operations[2].message # operations[1].message
  /\ operations[3].kind = "clear" /\ operations[3].session = "s1"
  /\ operations[4].kind = "getMessages" /\ operations[4].session = "s2"
  /\ operations[4].result = <<operations[2].message>>
  /\ Cardinality(table) = 1

\* the j-th request was answered with a status that counts as success
AnsweredWell(j) ==
  /\ fetches[j].state = "answered"
  /\ fetches[j].code \in {"OK", "ALREADY_EXISTS"}

\* the j-th request failed or was answered with another status
AnsweredBadly(j) ==
  \/ fetches[j].state = "failed"
  \/ fetches[j].state = "answered"
       /\ fetches[j].code \notin {"OK", "ALREADY_EXISTS"}

\* the ids of the first n requests, in the order of the requests
RequestedIds(n) == [j \in 1..n |-> fetches[j].data.document_id]

\* C23: the requests of an addDocuments call are for its documents in input
\* order, each with the document's text and with its metadata.document_id
\* when it has one, a fresh id when it has none; a request is made only
\* when every request before it was answered with OK or ALREADY_EXISTS, so
\* at most the last one is unanswered.  When the last request failed or was
\* answered with another status, the call has thrown an error with code
\* 500 and has no return value, and no request for a later document exists;
\* a call that threw after a request did so for this reason.  When every
\* document's request was answered with OK or ALREADY_EXISTS the call has
\* returned the ids of the requests in input order, and a call returns in
\* no other case; a call with no document on a store with one corpus id
\* returns the empty list.  The ids of the requests answered with success
\* are in the corpus.
C23_IndexedInOrderUntilFirstFailure ==
  LET docs == vectara.documents
      n == Len(fetches)
  IN  /\ n <= Len(docs)
      /\ \A j \in 1..n :
           /\ fetches[j].data.text = docs[j].pageContent
           /\ fetches[j].data.document_id =
                IF docs[j].metadata.document_id # Undefined
                  THEN docs[j].metadata.document_id ELSE DocUuid(j)
           /\ j < n => AnsweredWell(j)
           /\ AnsweredWell(j) => fetches[j].data.document_id \in corpus
      /\ vectara.pc = "fetching" <=> (n > 0 /\ fetches[n].state = "pending")
      /\ (n > 0 /\ AnsweredBadly(n)) =>
           /\ vectara.pc = "rejected" /\ vectara.code = 500
           /\ vectara.returned = <<>>
      /\ (vectara.pc = "rejected" /\ n > 0) => AnsweredBadly(n)
      /\ (n > 0 /\ n = Len(docs) /\ AnsweredWell(n)) =>
           /\ vectara.pc = "resolved"
           /\ vectara.returned = RequestedIds(n)
      /\ vectara.pc = "resolved" =>
           /\ n = Len(docs) /\ \A j \in 1..n : AnsweredWell(j)
           /\ vectara.returned = RequestedIds(n)
      /\ (vectara.pc # "idle" /\ docs = <<>> /\ Len(corpusId) = 1) =>
           vectara.pc = "resolved" /\ vectara.returned = <<>>

\* C23's case: of three documents the first, without document_id, was
\* indexed under a fresh id, the request for the second, with document_id
\* d1, was answered with another status; the call has thrown with code 500,
\* no request was made for the third document, and the first document is
\* in the corpus
C23_Witness ==
  /\ Len(vectara.documents) = 3 /\ Len(fetches) = 2
  /\ vectara.documents[1].metadata.document_id = Undefined
  /\ fetches[1].state = "answered" /\ fetches[1].code = "OK"
  /\ fetches[2].data.document_id = "d1"
  /\ fetches[2].state = "answered" /\ fetches[2].code = "INVALID_ARGUMENT"
  /\ vectara.pc = "rejected" /\ vectara.code = 500
  /\ vectara.returned = <<>>
  /\ fetches[1].data.document_id \in corpus

====
